---- MODULE Spec2Model ----
(***************************************************************************)
(* Model of FileBackendImpl (src/src/backends/FileBackend.impl.ts): a      *)
(* file-per-entry memory store with an in-memory metadata Map that is      *)
(* written through to one JSON index file.                                 *)
(*                                                                         *)
(* A JavaScript string is a sequence of UTF-16 code units.  The alphabet   *)
(* below keeps the four kinds of code unit that behave differently when a  *)
(* string is written as UTF-8: ASCII ("a", "b", "n" for the line feed),    *)
(* a high surrogate "H", a low surrogate "L" and U+FFFD "R".  A file holds *)
(* a sequence of encoded scalar values: the ASCII values (1 byte each),    *)
(* "R" (3 bytes) and "P", the supplementary-plane scalar of a surrogate    *)
(* pair (4 bytes).                                                         *)
(***************************************************************************)
EXTENDS Integers, Sequences, FiniteSets, TLC

\* ---------------------------------------------------------------- bounds
MaxClock == 1
MaxOps == 3
MaxRecords == 11
MaxCalls == 2
MaxRestarts == 1

\* ---------------------------------------------------------------- inputs
Names == {"x.md", "y.md"}
DefaultCategory == "system"
FixedCats == {"system", "personalities", "projects"}
Cats == {"system", "catA"}
Contents == {<<"a">>, <<"H">>, <<"H", "L">>}
Extras == {<<"b">>, <<"L">>}
MetadataName == ".metadata.json"
HiddenNames == {MetadataName, ".hidden.md"}
\* a category directory inside a category directory
Nested == {[path |-> "personalities/technical", parent |-> "personalities",
            name |-> "technical"]}
CallContents == {<<"a">>, <<"b", "b">>}
CallCats == {DefaultCategory}

None == <<>>
Some(x) == <<x>>
Val(o) == o[1]

\* ------------------------------------------------------------- encoding
IsSurrogate(u) == u \in {"H", "L"}

\* fs.writeFile(path, string, 'utf-8') and Hash.update(string): UTF-16 code
\* units to UTF-8; a surrogate pair is one 4-byte scalar, an unpaired
\* surrogate is replaced by U+FFFD.
RECURSIVE Utf8Encode(_)
Utf8Encode(s) ==
  IF s = <<>> THEN <<>>
  ELSE IF Len(s) >= 2 /\ s[1] = "H" /\ s[2] = "L"
       THEN <<"P">> \o Utf8Encode(SubSeq(s, 3, Len(s)))
  ELSE IF IsSurrogate(s[1])
       THEN <<"R">> \o Utf8Encode(Tail(s))
  ELSE <<s[1]>> \o Utf8Encode(Tail(s))

\* a decoder that knows no 4-byte sequences and gives U+FFFD for them
RECURSIVE Utf8DecodeBmpOnly(_)
Utf8DecodeBmpOnly(b) ==
  IF b = <<>> THEN <<>>
  ELSE IF b[1] = "P" THEN <<"R">> \o Utf8DecodeBmpOnly(Tail(b))
  ELSE <<b[1]>> \o Utf8DecodeBmpOnly(Tail(b))

\* fs.readFile(path, 'utf-8'): UTF-8 to UTF-16 code units.
RECURSIVE Utf8Decode(_)
Utf8Decode(b) ==
  IF b = <<>> THEN <<>>
  ELSE IF b[1] = "P" THEN <<"H", "L">> \o Utf8Decode(Tail(b))
  ELSE <<b[1]>> \o Utf8Decode(Tail(b))

ByteWidth(v) == IF v = "P" THEN 4 ELSE IF v = "R" THEN 3 ELSE 1

\* fs.stat(path).size: the number of bytes of the file.
RECURSIVE ByteLen(_)
ByteLen(b) == IF b = <<>> THEN 0 ELSE ByteWidth(b[1]) + ByteLen(Tail(b))

\* crypto.createHash('sha256').update(content).digest('hex'): the digest of
\* the UTF-8 bytes of the string, one value per byte sequence.
Sha256Hex(s) == [sha256 |-> Utf8Encode(s)]

\* a string with no unpaired surrogate code unit
RECURSIVE WellFormed(_)
WellFormed(s) ==
  IF s = <<>> THEN TRUE
  ELSE IF Len(s) >= 2 /\ s[1] = "H" /\ s[2] = "L"
       THEN WellFormed(SubSeq(s, 3, Len(s)))
  ELSE ~IsSurrogate(s[1]) /\ WellFormed(Tail(s))

\* --------------------------------------------------------- the Map<K,V>
\* A Map keeps its keys in insertion order: a sequence of [key, value].
MapKeys(m) == {m[i].key : i \in 1..Len(m)}
MapHas(m, k) == k \in MapKeys(m)
MapIdx(m, k) == CHOOSE i \in 1..Len(m) : m[i].key = k
MapGet(m, k) == m[MapIdx(m, k)].value
MapSet(m, k, v) ==
  IF MapHas(m, k) THEN [m EXCEPT ![MapIdx(m, k)] = [key |-> k, value |-> v]]
  ELSE Append(m, [key |-> k, value |-> v])
MapDelete(m, k) == SelectSeq(m, LAMBDA e : e.key # k)
MapValues(m) == [i \in 1..Len(m) |-> m[i].value]

\* ----------------------------------------------------------------- state
VARIABLES
  files,      \* [Cats \X Names -> None | Some(bytes)]: root/category/name
  dirs,       \* the directories that exist under the root
  indexFile,  \* root/.metadata.json: None | Some(JSON object as a Map)
  metadata,   \* this.metadata of the live instance
  now,        \* the millisecond new Date() reads
  last,       \* the last call, what it found and what it returned
  reads,      \* per name: successful retrieves since its last write, -1 if none
  nops,       \* calls issued so far
  held,       \* the metadata objects earlier calls returned to the caller
  calls       \* the calls issued without awaiting one another, with their progress

vars == <<files, dirs, indexFile, metadata, now, last, reads, nops, held, calls>>

\* the filesystem and the instance, as one value the handlers transform
St == [files |-> files, dirs |-> dirs, indexFile |-> indexFile, metadata |-> metadata]

\* path.relative(memoryRoot, path.join(memoryRoot, category, filename))
RelPath(category, filename) == <<category, filename>>

FileExists(s, category, filename) ==
  category \in s.dirs /\ s.files[<<category, filename>>] # None

\* JSON.stringify(Object.fromEntries(this.metadata)): Date.toJSON gives the
\* ISO-8601 string of the instant, to the millisecond.
ToISOString(t) == [iso |-> t]
DateParse(str) == str.iso
Stringify(m) ==
  [i \in 1..Len(m) |->
     [key |-> m[i].key,
      value |-> [m[i].value EXCEPT !.lastUpdated = ToISOString(@)]]]

\* ---------------------------------------------------------------- results
Ok(s, content, meta) ==
  [st |-> s, status |-> "ok", error |-> "", content |-> content, meta |-> meta,
   listing |-> <<>>]
Err(s, msg) ==
  [st |-> s, status |-> "error", error |-> msg, content |-> None, meta |-> None,
   listing |-> <<>>]
Listing(s, recs) ==
  [st |-> s, status |-> "ok", error |-> "", content |-> None, meta |-> None,
   listing |-> recs]

\* The text of the index file is the JSON of a Map, or a text JSON.parse
\* rejects, of which only the length matters: the empty text a file has once
\* it is opened for writing, or the mix left when a text is written over the
\* start of a longer one.
NotJson(bytes) == <<[key |-> "", value |-> [bytes |-> bytes]]>>
IsJson(text) == text = <<>> \/ text[1].key # ""

StrLen(str) ==
  CASE str \in {"x.md", "y.md", "catA"} -> 4
    [] str = "system" -> 6
    [] str = "projects" -> 8
    [] str = "personalities" -> 13
    [] str = ".hidden.md" -> 10
    [] str = "technical" -> 9
    [] str = "personalities/technical" -> 23
    [] OTHER -> 6
Digits(n) == IF n < 10 THEN 1 ELSE IF n < 100 THEN 2 ELSE 3

\* JSON.stringify(obj, null, 2): the length of the text. An entry takes
\*   '  "<key>": {'  '    "filePath": "<category>/<name>",'
\*   '    "contentHash": "<64 hex digits>",'  '    "lastUpdated": "<24 chars>",'
\*   '    "accessCount": <n>,'  '    "size": <n>'  '  }'
\* with the line ends, and the text of no entry is '{}'.
EntryLen(e) ==
  199 + StrLen(e.key) + StrLen(e.value.filePath[1]) + 1 + StrLen(e.value.filePath[2])
      + Digits(e.value.accessCount) + Digits(e.value.size)
RECURSIVE JsonLen(_)
JsonLen(json) ==
  IF json = <<>> THEN 2
  ELSE IF Len(json) = 1 THEN 4 + EntryLen(json[1])
  ELSE 2 + EntryLen(json[1]) + JsonLen(Tail(json))
TextLen(text) == IF IsJson(text) THEN JsonLen(text) ELSE text[1].value.bytes

\* a write that leaves the longer of the two texts
WrittenOverKeepsLonger(text, current) ==
  IF TextLen(current) <= TextLen(text) THEN text ELSE current

\* FileHandle.write of the whole text at offset 0 of a file that holds
\* `current`: what lies beyond the end of the text stays
WrittenOver(text, current) ==
  IF TextLen(current) <= TextLen(text) THEN text ELSE NotJson(TextLen(current))

saveMetadata(s) == [s EXCEPT !.indexFile = Some(Stringify(s.metadata))]

\* a load that starts every access count again from 0
loadMetadataZeroCounts(s) ==
  IF s.indexFile = None \/ ~IsJson(Val(s.indexFile))
  THEN Ok([s EXCEPT !.metadata = <<>>], None, None)
  ELSE Ok([s EXCEPT !.metadata =
             [i \in 1..Len(Val(s.indexFile)) |->
                [key |-> Val(s.indexFile)[i].key,
                 value |-> [Val(s.indexFile)[i].value EXCEPT
                              !.lastUpdated = DateParse(@), !.accessCount = 0]]]],
          None, None)

\* a load that does not read the instant of a record and dates it at 0
loadMetadataNoDates(s) ==
  IF s.indexFile = None \/ ~IsJson(Val(s.indexFile))
  THEN Ok([s EXCEPT !.metadata = <<>>], None, None)
  ELSE Ok([s EXCEPT !.metadata =
             [i \in 1..Len(Val(s.indexFile)) |->
                [key |-> Val(s.indexFile)[i].key,
                 value |-> [Val(s.indexFile)[i].value EXCEPT !.lastUpdated = 0]]]],
          None, None)

\* a load with no catch: what readFile or JSON.parse throws reaches the caller
loadMetadataNoCatch(s) ==
  IF s.indexFile = None THEN Err(s, "ENOENT")
  ELSE IF ~IsJson(Val(s.indexFile)) THEN Err(s, "SyntaxError")
  ELSE Ok([s EXCEPT !.metadata =
             [i \in 1..Len(Val(s.indexFile)) |->
                [key |-> Val(s.indexFile)[i].key,
                 value |-> [Val(s.indexFile)[i].value EXCEPT
                              !.lastUpdated = DateParse(@)]]]],
          None, None)

\* readFile and JSON.parse, then the Map of the entries with their dates
\* parsed; if either throws, the catch installs an empty Map and the load
\* returns normally (lines 239-242)
loadMetadata(s) ==
  IF s.indexFile = None \/ ~IsJson(Val(s.indexFile))
  THEN Ok([s EXCEPT !.metadata = <<>>], None, None)
  ELSE Ok([s EXCEPT !.metadata =
             [i \in 1..Len(Val(s.indexFile)) |->
                [key |-> Val(s.indexFile)[i].key,
                 value |-> [Val(s.indexFile)[i].value EXCEPT
                              !.lastUpdated = DateParse(@)]]]],
          None, None)

\* the directories are made, then the index is loaded; what loadMetadata
\* throws is thrown again (lines 46-49)
initialize(s) == loadMetadata([s EXCEPT !.dirs = @ \cup FixedCats])

\* a store that carries the access count of the record it replaces over
storeKeepsCount(s, filename, content, category, t) ==
  LET s1 == [s EXCEPT !.dirs = @ \cup {category},
                      !.files[<<category, filename>>] = Some(Utf8Encode(content))]
      rec == [filePath |-> RelPath(category, filename),
              contentHash |-> Sha256Hex(content),
              lastUpdated |-> t,
              accessCount |-> IF MapHas(s.metadata, filename)
                              THEN MapGet(s.metadata, filename).accessCount ELSE 0,
              size |-> ByteLen(Val(s1.files[<<category, filename>>]))]
      s2 == [s1 EXCEPT !.metadata = MapSet(@, filename, rec)]
  IN Ok(saveMetadata(s2), None, Some(rec))

store(s, filename, content, category, t) ==
  LET s1 == [s EXCEPT !.dirs = @ \cup {category},
                      !.files[<<category, filename>>] = Some(Utf8Encode(content))]
      rec == [filePath |-> RelPath(category, filename),
              contentHash |-> Sha256Hex(content),
              lastUpdated |-> t,
              accessCount |-> 0,
              size |-> ByteLen(Val(s1.files[<<category, filename>>]))]
      s2 == [s1 EXCEPT !.metadata = MapSet(@, filename, rec)]
  IN Ok(saveMetadata(s2), None, Some(rec))

\* a retrieve that refreshes lastUpdated but does not count the read
retrieveNoCount(s, filename, category, t) ==
  IF ~FileExists(s, category, filename)
  THEN Err(s, "Memory file not found")
  ELSE LET content == Utf8Decode(Val(s.files[<<category, filename>>]))
       IN IF MapHas(s.metadata, filename)
          THEN LET rec == [MapGet(s.metadata, filename) EXCEPT !.lastUpdated = t]
                   s1 == [s EXCEPT !.metadata = MapSet(@, filename, rec)]
               IN Ok(saveMetadata(s1), Some(content), Some(rec))
          ELSE Ok(s, Some(content),
                  Some([filePath |-> RelPath(category, filename),
                        contentHash |-> Sha256Hex(content),
                        lastUpdated |-> t,
                        accessCount |-> 1,
                        size |-> Len(content)]))

\* a retrieve that counts the read in memory and does not persist the index
retrieveNoSave(s, filename, category, t) ==
  IF ~FileExists(s, category, filename)
  THEN Err(s, "Memory file not found")
  ELSE LET content == Utf8Decode(Val(s.files[<<category, filename>>]))
       IN IF MapHas(s.metadata, filename)
          THEN LET rec == [MapGet(s.metadata, filename) EXCEPT
                             !.accessCount = @ + 1, !.lastUpdated = t]
                   s1 == [s EXCEPT !.metadata = MapSet(@, filename, rec)]
               IN Ok(s1, Some(content), Some(rec))
          ELSE Ok(s, Some(content),
                  Some([filePath |-> RelPath(category, filename),
                        contentHash |-> Sha256Hex(content),
                        lastUpdated |-> t,
                        accessCount |-> 1,
                        size |-> Len(content)]))

retrieve(s, filename, category, t) ==
  IF ~FileExists(s, category, filename)
  THEN Err(s, "Memory file not found")
  ELSE LET content == Utf8Decode(Val(s.files[<<category, filename>>]))
       IN IF MapHas(s.metadata, filename)
          THEN LET rec == [MapGet(s.metadata, filename) EXCEPT
                             !.accessCount = @ + 1, !.lastUpdated = t]
                   s1 == [s EXCEPT !.metadata = MapSet(@, filename, rec)]
               IN Ok(saveMetadata(s1), Some(content), Some(rec))
          ELSE Ok(s, Some(content),
                  Some([filePath |-> RelPath(category, filename),
                        contentHash |-> Sha256Hex(content),
                        lastUpdated |-> t,
                        accessCount |-> 1,
                        size |-> Len(content)]))

\* an update without the existence probe
updateNoProbe(s, filename, content, category, t) ==
  store(s, filename, content, category, t)

\* an update that leaves the access count of the record as it was
updateKeepsCount(s, filename, content, category, t) ==
  IF ~FileExists(s, category, filename)
  THEN Err(s, "Cannot update non-existent file")
  ELSE storeKeepsCount(s, filename, content, category, t)

update(s, filename, content, category, t) ==
  IF ~FileExists(s, category, filename)
  THEN Err(s, "Cannot update non-existent file")
  ELSE store(s, filename, content, category, t)

\* an append that puts the new text in front of the old
appendInFront(s, filename, additionalContent, category, t) ==
  LET r == retrieve(s, filename, category, t)
  IN IF r.status = "error" THEN r
     ELSE update(r.st, filename, additionalContent \o <<"n">> \o Val(r.content),
                 category, t)

append(s, filename, additionalContent, category, t) ==
  LET r == retrieve(s, filename, category, t)
  IN IF r.status = "error" THEN r
     ELSE update(r.st, filename, Val(r.content) \o <<"n">> \o additionalContent,
                 category, t)

\* a remove that deletes the file and keeps the index record
removeKeepsRecord(s, filename, category) ==
  IF ~FileExists(s, category, filename)
  THEN Err(s, "Cannot delete non-existent file")
  ELSE Ok(saveMetadata([s EXCEPT !.files[<<category, filename>>] = None]), None, None)

\* a remove that does not write the index file
removeNoSave(s, filename, category) ==
  IF ~FileExists(s, category, filename)
  THEN Err(s, "Cannot delete non-existent file")
  ELSE Ok([s EXCEPT !.files[<<category, filename>>] = None,
                    !.metadata = MapDelete(@, filename)], None, None)

\* a remove that unlinks the name under every category
removeEveryCategory(s, filename, category) ==
  IF ~FileExists(s, category, filename)
  THEN Err(s, "Cannot delete non-existent file")
  ELSE LET s1 == [s EXCEPT !.files = [e \in DOMAIN @ |->
                                        IF e[2] = filename THEN None ELSE @[e]],
                           !.metadata = MapDelete(@, filename)]
       IN Ok(saveMetadata(s1), None, None)

remove(s, filename, category) ==
  IF ~FileExists(s, category, filename)
  THEN Err(s, "Cannot delete non-existent file")
  ELSE LET s1 == [s EXCEPT !.files[<<category, filename>>] = None,
                           !.metadata = MapDelete(@, filename)]
       IN Ok(saveMetadata(s1), None, None)

\* files.sort((a, b) => b.lastUpdated - a.lastUpdated): Array.prototype.sort
\* is stable, so records with equal lastUpdated keep their input order.
RECURSIVE InsertByLastUpdated(_, _)
InsertByLastUpdated(sorted, rec) ==
  IF sorted = <<>> THEN <<rec>>
  ELSE IF Head(sorted).lastUpdated >= rec.lastUpdated
       THEN <<Head(sorted)>> \o InsertByLastUpdated(Tail(sorted), rec)
  ELSE <<rec>> \o sorted

RECURSIVE SortByLastUpdated(_)
SortByLastUpdated(recs) ==
  IF recs = <<>> THEN <<>>
  ELSE InsertByLastUpdated(SortByLastUpdated(SubSeq(recs, 1, Len(recs) - 1)),
                           recs[Len(recs)])

\* fs.readdir(searchPath, {withFileTypes: true}): the regular files of a
\* category directory are its entries; those of the root are the index file.
DirFiles(s, category) ==
  IF category = None
  THEN IF s.indexFile = None THEN {} ELSE {MetadataName}
  ELSE {k[2] : k \in {e \in DOMAIN s.files :
                         e[1] = Val(category) /\ s.files[e] # None}}

\* the subdirectories of the root are the category directories; a category
\* directory has the nested categories made under it
SubDirs(s, category) ==
  IF category = None THEN s.dirs \ {d.path : d \in Nested}
  ELSE {d.name : d \in {x \in Nested : x.parent = Val(category) /\ x.path \in s.dirs}}

DirExists(s, category) == category = None \/ Val(category) \in s.dirs

StartsWithDot(name) == name \in HiddenNames

Orders(S) == {o \in [1..Cardinality(S) -> S] : \A e \in S : \E i \in DOMAIN o : o[i] = e}

RECURSIVE SetToSeq(_)
SetToSeq(S) ==
  IF S = {} THEN <<>>
  ELSE LET x == CHOOSE y \in S : TRUE IN <<x>> \o SetToSeq(S \ {x})

\* The Dirent sequences readdir can return: the order is the filesystem's.
\* Subdirectories are put first, as no step of list depends on where they are.
Readdir(s, category) ==
  LET subdirs == SetToSeq(SubDirs(s, category))
  IN {[i \in 1..Len(subdirs) |-> [name |-> subdirs[i], isFile |-> FALSE]]
      \o [i \in 1..Len(o) |-> [name |-> o[i], isFile |-> TRUE]] :
      o \in Orders(DirFiles(s, category))}

\* a list that counts an access on every record it returns
listCounts(s, category, entries) ==
  IF ~DirExists(s, category) THEN Listing(s, <<>>)
  ELSE LET kept == SelectSeq(entries, LAMBDA e :
                     e.isFile /\ ~StartsWithDot(e.name) /\ MapHas(s.metadata, e.name))
           listed == {kept[i].name : i \in 1..Len(kept)}
           counted == [i \in 1..Len(s.metadata) |->
                         IF s.metadata[i].key \in listed
                         THEN [s.metadata[i] EXCEPT !.value.accessCount = @ + 1]
                         ELSE s.metadata[i]]
           recs == [i \in 1..Len(kept) |-> MapGet(counted, kept[i].name)]
       IN Listing([s EXCEPT !.metadata = counted], SortByLastUpdated(recs))

\* a list that does not look at the first character of a name
listHidden(s, category, entries) ==
  IF ~DirExists(s, category) THEN Listing(s, <<>>)
  ELSE LET kept == SelectSeq(entries, LAMBDA e :
                     e.isFile /\ MapHas(s.metadata, e.name))
           recs == [i \in 1..Len(kept) |-> MapGet(s.metadata, kept[i].name)]
       IN Listing(s, SortByLastUpdated(recs))

\* a list that returns the records of the whole index, whatever the directory
listWholeIndex(s, category, entries) ==
  IF ~DirExists(s, category) THEN Listing(s, <<>>)
  ELSE Listing(s, SortByLastUpdated(MapValues(s.metadata)))

\* list(category) for one order of the directory entries
list(s, category, entries) ==
  IF ~DirExists(s, category) THEN Listing(s, <<>>)
  ELSE LET kept == SelectSeq(entries, LAMBDA e :
                     e.isFile /\ ~StartsWithDot(e.name) /\ MapHas(s.metadata, e.name))
           recs == [i \in 1..Len(kept) |-> MapGet(s.metadata, kept[i].name)]
       IN Listing(s, SortByLastUpdated(recs))

\* the results list(category) can return
ListResults(s, category) ==
  {list(s, category, o).listing : o \in Readdir(s, category)}

RECURSIVE InsertByAccessCount(_, _)
InsertByAccessCount(sorted, rec) ==
  IF sorted = <<>> THEN <<rec>>
  ELSE IF Head(sorted).accessCount >= rec.accessCount
       THEN <<Head(sorted)>> \o InsertByAccessCount(Tail(sorted), rec)
  ELSE <<rec>> \o sorted

RECURSIVE SortByAccessCount(_)
SortByAccessCount(recs) ==
  IF recs = <<>> THEN <<>>
  ELSE InsertByAccessCount(SortByAccessCount(SubSeq(recs, 1, Len(recs) - 1)),
                           recs[Len(recs)])

RECURSIVE SumSize(_)
SumSize(recs) == IF recs = <<>> THEN 0 ELSE Head(recs).size + SumSize(Tail(recs))

TopN == 10

\* a getStats that takes the first ten records of the index as they come
getStatsFirstTen(s) ==
  LET allMetadata == MapValues(s.metadata)
  IN [totalFiles |-> Len(allMetadata),
      totalSize |-> SumSize(allMetadata),
      categories |-> <<"system", "personalities", "projects">>,
      mostAccessed |-> SubSeq(allMetadata, 1,
                              IF Len(allMetadata) < TopN THEN Len(allMetadata) ELSE TopN)]

getStats(s) ==
  LET allMetadata == MapValues(s.metadata)
      sorted == SortByAccessCount(allMetadata)
  IN [totalFiles |-> Len(allMetadata),
      totalSize |-> SumSize(allMetadata),
      categories |-> <<"system", "personalities", "projects">>,
      mostAccessed |-> SubSeq(sorted, 1, IF Len(sorted) < TopN THEN Len(sorted) ELSE TopN)]

\* a clear that leaves the index file in place
clearKeepsIndexFile(s) ==
  initialize([s EXCEPT !.files = [k \in Cats \X Names |-> None],
                       !.dirs = {}])

\* fs.rm(memoryRoot, {recursive, force}) then initialize()
clear(s) ==
  initialize([s EXCEPT !.files = [k \in Cats \X Names |-> None],
                       !.dirs = {},
                       !.indexFile = None])

\* new FileBackendImpl(memoryRoot) followed by initialize(): a new session
\* on the same root
newSession(s) == initialize([s EXCEPT !.metadata = <<>>])

\* ------------------------------------------------------------------ calls
\* The record of a call: its arguments, the index record and the file it
\* found for its name, the number of index records it found, and its result.
Call(op, filename, category, arg, r) ==
  [op |-> op, name |-> filename, cat |-> category, arg |-> arg,
   preMeta |-> IF MapHas(metadata, filename)
               THEN Some(MapGet(metadata, filename)) ELSE None,
   preFile |-> IF filename \in Names /\ category \in Cats
               THEN files[<<category, filename>>] ELSE None,
   preTotal |-> Len(metadata),
   status |-> r.status, error |-> r.error, content |-> r.content, meta |-> r.meta,
   listing |-> r.listing]

ReadsAfter(op, filename, r) ==
  IF r.status # "ok" THEN reads
  ELSE IF op \in {"store", "update", "append"} THEN [reads EXCEPT ![filename] = 0]
  ELSE IF op = "retrieve"
       THEN [reads EXCEPT ![filename] = IF @ >= 0 THEN @ + 1 ELSE @]
  ELSE IF op = "remove" THEN [reads EXCEPT ![filename] = -1]
  ELSE IF op = "clear" THEN [n \in Names |-> -1]
  ELSE reads

DoUpTo(max, op, filename, category, arg, r) ==
  /\ nops < max
  /\ files' = r.st.files
  /\ dirs' = r.st.dirs
  /\ indexFile' = r.st.indexFile
  /\ metadata' = r.st.metadata
  /\ last' = Call(op, filename, category, arg, r)
  /\ reads' = ReadsAfter(op, filename, r)
  /\ nops' = nops + 1
  /\ UNCHANGED now

DoCall(op, filename, category, arg, r) == DoUpTo(MaxOps, op, filename, category, arg, r)

\* a call awaited before the next one is issued, its result not kept
Do(op, filename, category, arg, r) ==
  /\ DoCall(op, filename, category, arg, r)
  /\ UNCHANGED <<held, calls>>

\* a fresh root on which the first instance has been constructed and initialized
Init ==
  /\ files = [k \in Cats \X Names |-> None]
  /\ dirs = FixedCats
  /\ indexFile = None
  /\ metadata = <<>>
  /\ now = 0
  /\ last = [op |-> "initialize", name |-> "", cat |-> "", arg |-> None,
             preMeta |-> None, preFile |-> None, preTotal |-> 0,
             status |-> "ok", error |-> "",
             content |-> None, meta |-> None, listing |-> <<>>]
  /\ reads = [n \in Names |-> -1]
  /\ nops = 0
  /\ held = <<>>
  /\ calls = <<>>

Store ==
  \E filename \in Names, content \in Contents, category \in Cats :
    Do("store", filename, category, Some(content),
       store(St, filename, content, category, now))

Retrieve ==
  \E filename \in Names, category \in Cats :
    Do("retrieve", filename, category, None,
       retrieve(St, filename, category, now))

Update ==
  \E filename \in Names, content \in Contents, category \in Cats :
    Do("update", filename, category, Some(content),
       update(St, filename, content, category, now))

AppendTo ==
  \E filename \in Names, additionalContent \in Extras, category \in Cats :
    Do("append", filename, category, Some(additionalContent),
       append(St, filename, additionalContent, category, now))

Remove ==
  \E filename \in Names, category \in Cats :
    Do("remove", filename, category, None, remove(St, filename, category))

List ==
  \E category \in {None} \cup {Some(c) : c \in Cats} :
    \E entries \in Readdir(St, category) :
      Do("list", "", IF category = None THEN "" ELSE Val(category), None,
         list(St, category, entries))

GetStats ==
  Do("getStats", "", "", None, Listing(St, getStats(St).mostAccessed))

Clear ==
  Do("clear", "", "", None, clear(St))

NewSession ==
  Do("initialize", "", "", None, newSession(St))

\* the clock new Date() reads advances between calls
Tick ==
  /\ now < MaxClock
  /\ now' = now + 1
  /\ UNCHANGED <<files, dirs, indexFile, metadata, last, reads, nops, held, calls>>

Next ==
  \/ Store \/ Retrieve \/ Update \/ AppendTo \/ Remove
  \/ List \/ GetStats \/ Clear \/ NewSession \/ Tick

Spec == Init /\ [][Next]_vars

\* ------------------------------------------------------ returned objects
\* store returns the object it has just put in the Map (lines 79, 82) and
\* retrieve returns the object the Map holds (lines 99, 106-115), so a caller
\* keeps a reference to the record the instance goes on changing. A handle
\* is what a caller kept from one call: the value it was given, the value
\* the object has now, and whether the Map still holds that very object.
Handle(op, filename, category, rec, inMap) ==
  [op |-> op, name |-> filename, cat |-> category,
   returned |-> rec, value |-> rec, inMap |-> inMap]

\* metadata.accessCount++ and metadata.lastUpdated = ... act on the object
\* in the Map, which every handle to it shows
Mutated(h, filename, rec) ==
  [i \in DOMAIN h |->
     IF h[i].name = filename /\ h[i].inMap THEN [h[i] EXCEPT !.value = rec] ELSE h[i]]

\* metadata.set(filename, newObject) and metadata.delete(filename) take the
\* old object out of the Map
Replaced(h, filename) ==
  [i \in DOMAIN h |->
     IF h[i].name = filename THEN [h[i] EXCEPT !.inMap = FALSE] ELSE h[i]]

\* what the caller holds once a call has returned
HeldAfter(op, filename, category, r) ==
  IF r.status # "ok" THEN held
  ELSE IF op = "store"
       THEN Append(Replaced(held, filename),
                   Handle(op, filename, category, Val(r.meta), TRUE))
  ELSE IF op = "retrieve"
       THEN IF MapHas(metadata, filename)
            THEN Append(Mutated(held, filename, Val(r.meta)),
                        Handle(op, filename, category, Val(r.meta), TRUE))
            ELSE Append(held, Handle(op, filename, category, Val(r.meta), FALSE))
  ELSE Replaced(held, filename)

\* a call awaited before the next one is issued, its result kept by the caller
DoKeep(op, filename, category, arg, r) ==
  /\ DoCall(op, filename, category, arg, r)
  /\ held' = HeldAfter(op, filename, category, r)
  /\ UNCHANGED calls

KeepStore ==
  \E filename \in Names, content \in Contents, category \in Cats :
    DoKeep("store", filename, category, Some(content),
           store(St, filename, content, category, now))

KeepRetrieve ==
  \E filename \in Names, category \in Cats :
    DoKeep("retrieve", filename, category, None,
           retrieve(St, filename, category, now))

KeepRemove ==
  \E filename \in Names, category \in Cats :
    DoKeep("remove", filename, category, None, remove(St, filename, category))

NextKeep == KeepStore \/ KeepRetrieve \/ KeepRemove \/ Tick

SpecKeep == Init /\ [][NextKeep]_vars

\* ------------------------------------------------------ overlapping calls
\* Calls issued without awaiting one another. An async method runs from one
\* await to the next without interruption, so a call is a sequence of steps,
\* one for each filesystem operation it awaits; pc names the operation the
\* call is waiting for. fs.writeFile is two operations: it opens the file,
\* which empties it, then writes the text at offset 0.
NewCall(op, filename, category, arg, pc) ==
  [op |-> op, name |-> filename, cat |-> category, arg |-> arg, pc |-> pc,
   alone |-> \A i \in DOMAIN calls : calls[i].pc = "done",
   json |-> None, status |-> "pending", error |-> "", at |-> "",
   next |-> "done", saves |-> 0,
   content |-> None, meta |-> None]

Quiescent == \A i \in DOMAIN calls : calls[i].pc = "done"

Issue(c) ==
  /\ Len(calls) < MaxCalls
  /\ calls' = Append(calls, c)
  /\ UNCHANGED <<files, dirs, indexFile, metadata, now, last, reads, nops, held>>

Step(i, c, s) ==
  /\ calls' = [calls EXCEPT ![i] = c]
  /\ files' = s.files
  /\ dirs' = s.dirs
  /\ indexFile' = s.indexFile
  /\ metadata' = s.metadata
  /\ UNCHANGED <<now, last, reads, nops, held>>

Rejected(c, msg) == [c EXCEPT !.pc = "done", !.status = "error", !.error = msg]

\* what the caller gets when a filesystem operation of call c fails with
\* ENOENT: the catch of retrieve, update and remove makes it their not-found
\* error; store and clear throw it again, and append has no catch and is in
\* retrieve until its read is persisted, then in update
Enoent(c) ==
  CASE c.op = "retrieve" -> "Memory file not found"
    [] c.op = "update" -> "Cannot update non-existent file"
    [] c.op = "remove" -> "Cannot delete non-existent file"
    [] c.op = "append" -> IF c.pc = "readFile" \/ c.next = "access"
                          THEN "Memory file not found"
                          ELSE "Cannot update non-existent file"
    [] OTHER -> "ENOENT"

\* the bytes of `current` from byte offset n on (contents written by
\* overlapping calls are one byte a character, so n falls between scalars)
RECURSIVE DropBytes(_, _)
DropBytes(current, n) ==
  IF n <= 0 \/ current = <<>> THEN current
  ELSE DropBytes(Tail(current), n - ByteWidth(current[1]))

\* FileHandle.write of the whole content at offset 0
BytesWrittenOver(bytes, current) == bytes \o DropBytes(current, ByteLen(bytes))

IssueStore ==
  \E filename \in Names, content \in CallContents, category \in CallCats :
    Issue(NewCall("store", filename, category, Some(content), "mkdir"))

IssueRetrieve ==
  \E filename \in Names, category \in CallCats :
    Issue(NewCall("retrieve", filename, category, None, "readFile"))

\* await fs.mkdir(dirname, {recursive: true})
StoreMkdir(i) ==
  /\ calls[i].op \in {"store", "update", "append"} /\ calls[i].pc = "mkdir"
  /\ Step(i, [calls[i] EXCEPT !.pc = "writeFile.open"],
          [St EXCEPT !.dirs = @ \cup {calls[i].cat}])

\* await fs.writeFile(filePath, content, 'utf-8'): open with flag 'w'
StoreOpen(i) ==
  /\ calls[i].op \in {"store", "update", "append"} /\ calls[i].pc = "writeFile.open"
  /\ IF calls[i].cat \notin dirs
     THEN Step(i, Rejected(calls[i], Enoent(calls[i])), St)
     ELSE Step(i, [calls[i] EXCEPT !.pc = "writeFile.write"],
               [St EXCEPT !.files[<<calls[i].cat, calls[i].name>>] = Some(<<>>)])

\* a write that returns before the content has reached the file
StoreWriteNothing(i) ==
  /\ calls[i].op \in {"store", "update", "append"} /\ calls[i].pc = "writeFile.write"
  /\ Step(i, [calls[i] EXCEPT !.pc = "stat"], St)

\* ... then write; a file unlinked in between stays unlinked
StoreWrite(i) ==
  LET e == <<calls[i].cat, calls[i].name>>
  IN /\ calls[i].op \in {"store", "update", "append"} /\ calls[i].pc = "writeFile.write"
     /\ Step(i, [calls[i] EXCEPT !.pc = "stat"],
             [St EXCEPT !.files[e] =
                IF @ = None THEN None
                ELSE Some(BytesWrittenOver(Utf8Encode(Val(calls[i].arg)), Val(@)))])

\* a store that builds the index anew from its own record
StoreStatOwnRecord(i) ==
  LET c == calls[i]
      e == <<c.cat, c.name>>
      rec == [filePath |-> RelPath(c.cat, c.name),
              contentHash |-> Sha256Hex(Val(c.arg)),
              lastUpdated |-> now,
              accessCount |-> 0,
              size |-> ByteLen(Val(files[e]))]
      s1 == [St EXCEPT !.metadata = MapSet(<<>>, c.name, rec)]
  IN /\ c.op \in {"store", "update", "append"} /\ c.pc = "stat"
     /\ IF files[e] = None
        THEN Step(i, Rejected(c, Enoent(c)), St)
        ELSE Step(i, [c EXCEPT !.pc = "saveMetadata.open", !.meta = Some(rec),
                               !.json = Some(Stringify(s1.metadata))], s1)

\* await fs.stat(filePath), then the record is built and put in the Map and
\* saveMetadata makes the JSON text of the Map and starts to write it
\* (update's catch wraps the ENOENT of a file unlinked in between)
StoreStat(i) ==
  LET c == calls[i]
      e == <<c.cat, c.name>>
      rec == [filePath |-> RelPath(c.cat, c.name),
              contentHash |-> Sha256Hex(Val(c.arg)),
              lastUpdated |-> now,
              accessCount |-> 0,
              size |-> ByteLen(Val(files[e]))]
      s1 == [St EXCEPT !.metadata = MapSet(@, c.name, rec)]
  IN /\ c.op \in {"store", "update", "append"} /\ c.pc = "stat"
     /\ IF files[e] = None
        THEN Step(i, Rejected(c, Enoent(c)), St)
        ELSE Step(i, [c EXCEPT !.pc = "saveMetadata.open", !.meta = Some(rec),
                               !.json = Some(Stringify(s1.metadata))], s1)

\* a retrieve that counts the read only if no other call was in progress when
\* it was issued
RetrieveReadAloneCounts(i) ==
  LET c == calls[i]
      e == <<c.cat, c.name>>
      content == Utf8Decode(Val(files[e]))
  IN /\ c.op = "retrieve" /\ c.pc = "readFile"
     /\ IF ~FileExists(St, c.cat, c.name)
        THEN Step(i, Rejected(c, "Memory file not found"), St)
        ELSE IF MapHas(metadata, c.name)
        THEN LET rec == [MapGet(metadata, c.name) EXCEPT
                           !.accessCount = IF c.alone THEN @ + 1 ELSE @,
                           !.lastUpdated = now]
                 s1 == [St EXCEPT !.metadata = MapSet(@, c.name, rec)]
             IN Step(i, [c EXCEPT !.pc = "saveMetadata.open",
                                  !.content = Some(content), !.meta = Some(rec),
                                  !.json = Some(Stringify(s1.metadata))], s1)
        ELSE Step(i, [c EXCEPT !.pc = "done", !.status = "ok",
                               !.content = Some(content),
                               !.meta = Some([filePath |-> RelPath(c.cat, c.name),
                                              contentHash |-> Sha256Hex(content),
                                              lastUpdated |-> now,
                                              accessCount |-> 1,
                                              size |-> Len(content)])], St)

\* a retrieve that puts the record it makes from the content in the Map
RetrieveReadAddsRecord(i) ==
  LET c == calls[i]
      e == <<c.cat, c.name>>
      content == Utf8Decode(Val(files[e]))
  IN /\ c.op = "retrieve" /\ c.pc = "readFile"
     /\ IF ~FileExists(St, c.cat, c.name)
        THEN Step(i, Rejected(c, "Memory file not found"), St)
        ELSE IF MapHas(metadata, c.name)
        THEN LET rec == [MapGet(metadata, c.name) EXCEPT
                           !.accessCount = @ + 1, !.lastUpdated = now]
                 s1 == [St EXCEPT !.metadata = MapSet(@, c.name, rec)]
             IN Step(i, [c EXCEPT !.pc = "saveMetadata.open",
                                  !.content = Some(content), !.meta = Some(rec),
                                  !.json = Some(Stringify(s1.metadata))], s1)
        ELSE Step(i, [c EXCEPT !.pc = "done", !.status = "ok",
                               !.content = Some(content),
                               !.meta = Some([filePath |-> RelPath(c.cat, c.name),
                                              contentHash |-> Sha256Hex(content),
                                              lastUpdated |-> now,
                                              accessCount |-> 1,
                                              size |-> Len(content)])],
                     [St EXCEPT !.metadata =
                        MapSet(@, c.name,
                               [filePath |-> RelPath(c.cat, c.name),
                                contentHash |-> Sha256Hex(content),
                                lastUpdated |-> now,
                                accessCount |-> 1,
                                size |-> Len(content)])])

\* await fs.readFile(filePath, 'utf-8'), then the record, if the Map has
\* one, is counted up and saveMetadata makes the JSON text and starts to
\* write it; else the call returns a record made from the content
RetrieveRead(i) ==
  LET c == calls[i]
      e == <<c.cat, c.name>>
      content == Utf8Decode(Val(files[e]))
  IN /\ c.op = "retrieve" /\ c.pc = "readFile"
     /\ IF ~FileExists(St, c.cat, c.name)
        THEN Step(i, Rejected(c, "Memory file not found"), St)
        ELSE IF MapHas(metadata, c.name)
        THEN LET rec == [MapGet(metadata, c.name) EXCEPT
                           !.accessCount = @ + 1, !.lastUpdated = now]
                 s1 == [St EXCEPT !.metadata = MapSet(@, c.name, rec)]
             IN Step(i, [c EXCEPT !.pc = "saveMetadata.open",
                                  !.content = Some(content), !.meta = Some(rec),
                                  !.json = Some(Stringify(s1.metadata))], s1)
        ELSE Step(i, [c EXCEPT !.pc = "done", !.status = "ok",
                               !.content = Some(content),
                               !.meta = Some([filePath |-> RelPath(c.cat, c.name),
                                              contentHash |-> Sha256Hex(content),
                                              lastUpdated |-> now,
                                              accessCount |-> 1,
                                              size |-> Len(content)])], St)

\* a saveMetadata that is not awaited: the call goes on once the file is open
SaveOpenNotAwaited(i) ==
  /\ calls[i].pc = "saveMetadata.open"
  /\ IF dirs = {}
     THEN Step(i, Rejected(calls[i], Enoent(calls[i])), St)
     ELSE Step(i, [calls[i] EXCEPT !.pc = calls[i].next, !.next = "done",
                     !.status = IF calls[i].next = "done" THEN "ok" ELSE @],
               [St EXCEPT !.indexFile = Some(NotJson(0))])

\* await fs.writeFile(metadataFile, text, 'utf-8'): open with flag 'w'; with
\* no directory left under the root (fs.rm of clear) the root is gone and
\* the open fails
SaveOpen(i) ==
  /\ calls[i].pc = "saveMetadata.open"
  /\ IF dirs = {}
     THEN Step(i, Rejected(calls[i], Enoent(calls[i])), St)
     ELSE Step(i, [calls[i] EXCEPT !.pc = "saveMetadata.write"],
               [St EXCEPT !.indexFile = Some(NotJson(0))])

\* ... then write, and the call goes on: it returns, or, in append, it
\* leaves retrieve and enters update
SaveWrite(i) ==
  /\ calls[i].pc = "saveMetadata.write"
  /\ Step(i, [calls[i] EXCEPT !.pc = calls[i].next, !.next = "done",
                              !.saves = @ + 1,
                              !.status = IF calls[i].next = "done" THEN "ok" ELSE @],
          [St EXCEPT !.indexFile =
             IF @ = None THEN None
             ELSE Some(WrittenOver(Val(calls[i].json), Val(@)))])

\* the session ends with no call in progress and a new one starts on the root
Restart ==
  /\ Quiescent
  /\ nops < MaxRestarts
  /\ DoCall("initialize", "", "", None, newSession(St))
  /\ UNCHANGED <<held, calls>>

NextCalls ==
  \/ IssueStore \/ IssueRetrieve
  \/ \E i \in DOMAIN calls : StoreMkdir(i)
  \/ \E i \in DOMAIN calls : StoreOpen(i)
  \/ \E i \in DOMAIN calls : StoreWrite(i)
  \/ \E i \in DOMAIN calls : StoreStat(i)
  \/ \E i \in DOMAIN calls : RetrieveRead(i)
  \/ \E i \in DOMAIN calls : SaveOpen(i)
  \/ \E i \in DOMAIN calls : SaveWrite(i)
  \/ Restart

SpecCalls == Init /\ [][NextCalls]_vars

\* ---------------------------------------------------- overlapping reads
\* retrieve calls issued without awaiting one another on an instance whose
\* entries were stored before, each call awaited
MaxReads == 3
ReadContent(filename) == IF filename = "x.md" THEN <<"a">> ELSE <<"b", "b">>

RECURSIVE StoreNames(_, _)
StoreNames(s, names) ==
  IF names = <<>> THEN s
  ELSE StoreNames(store(s, Head(names), ReadContent(Head(names)), DefaultCategory, 0).st,
                  Tail(names))

InitReads ==
  \E names \in {<<"x.md">>, <<"y.md">>, <<"x.md", "y.md">>, <<"y.md", "x.md">>} :
    LET s == StoreNames([files |-> [k \in Cats \X Names |-> None],
                         dirs |-> FixedCats, indexFile |-> None,
                         metadata |-> <<>>], names)
    IN /\ files = s.files
       /\ dirs = s.dirs
       /\ indexFile = s.indexFile
       /\ metadata = s.metadata
       /\ now = 0
       /\ last = [op |-> "store", name |-> names[Len(names)], cat |-> DefaultCategory,
                  arg |-> Some(ReadContent(names[Len(names)])),
                  preMeta |-> None, preFile |-> None, preTotal |-> Len(names) - 1,
                  status |-> "ok", error |-> "", content |-> None,
                  meta |-> Some(MapGet(s.metadata, names[Len(names)])),
                  listing |-> <<>>]
       /\ reads = [n \in Names |-> IF MapHas(s.metadata, n) THEN 0 ELSE -1]
       /\ nops = Len(names)
       /\ held = <<>>
       /\ calls = <<>>

IssueRead ==
  \E filename \in Names :
    /\ Len(calls) < MaxReads
    /\ calls' = Append(calls, NewCall("retrieve", filename, DefaultCategory, None,
                                      "readFile"))
    /\ UNCHANGED <<files, dirs, indexFile, metadata, now, last, reads, nops, held>>

NextReads ==
  \/ IssueRead
  \/ \E i \in DOMAIN calls : RetrieveRead(i)
  \/ \E i \in DOMAIN calls : SaveOpen(i)
  \/ \E i \in DOMAIN calls : SaveWrite(i)

SpecReads == InitReads /\ [][NextReads]_vars

\* ------------------------------------------------- a process that stops
\* Calls awaited one after another by a process that can stop between two
\* filesystem operations of a call; what reached the disk stays, the Map is
\* lost, and a new instance is constructed and initialized on the same root.
MaxSequence == 3

\* the result of a call that was awaited is not kept
Settled(c) ==
  [c EXCEPT !.name = "", !.cat = "", !.arg = None, !.alone = TRUE, !.json = None,
            !.status = "settled", !.error = "", !.at = "", !.content = None,
            !.next = "done", !.saves = 0,
            !.meta = None]

IssueAlone(c) ==
  /\ Quiescent
  /\ Len(calls) < MaxSequence
  /\ calls' = Append([i \in DOMAIN calls |-> Settled(calls[i])], c)
  /\ UNCHANGED <<files, dirs, indexFile, metadata, now, last, reads, nops, held>>

CallStore ==
  \E filename \in Names, content \in CallContents, category \in CallCats :
    IssueAlone(NewCall("store", filename, category, Some(content), "mkdir"))

CallRetrieve ==
  \E filename \in Names, category \in CallCats :
    IssueAlone(NewCall("retrieve", filename, category, None, "readFile"))

CallUpdate ==
  \E filename \in Names, content \in CallContents, category \in CallCats :
    IssueAlone(NewCall("update", filename, category, Some(content), "access"))

CallRemove ==
  \E filename \in Names, category \in CallCats :
    IssueAlone(NewCall("remove", filename, category, None, "unlink"))

\* await fs.access(filePath), then store is entered
UpdateAccess(i) ==
  LET c == calls[i]
  IN /\ c.op \in {"update", "append"} /\ c.pc = "access"
     /\ IF ~FileExists(St, c.cat, c.name)
        THEN Step(i, Rejected(c, "Cannot update non-existent file"), St)
        ELSE Step(i, [c EXCEPT !.pc = "mkdir"], St)

\* a remove that writes the index before it unlinks the file
RemoveIndexFirst(i) ==
  LET c == calls[i]
      e == <<c.cat, c.name>>
      s1 == [St EXCEPT !.metadata = MapDelete(@, c.name)]
  IN /\ c.op = "remove" /\ c.pc = "unlink"
     /\ IF ~FileExists(St, c.cat, c.name)
        THEN Step(i, Rejected(c, "Cannot delete non-existent file"), St)
        ELSE Step(i, [c EXCEPT !.pc = "saveMetadata.open",
                               !.json = Some(Stringify(s1.metadata))], s1)

\* await fs.unlink(filePath), then the record leaves the Map and saveMetadata
\* makes the JSON text of the Map and starts to write it
RemoveUnlink(i) ==
  LET c == calls[i]
      e == <<c.cat, c.name>>
      s1 == [St EXCEPT !.files[e] = None, !.metadata = MapDelete(@, c.name)]
  IN /\ c.op = "remove" /\ c.pc = "unlink"
     /\ IF ~FileExists(St, c.cat, c.name)
        THEN Step(i, Rejected(c, "Cannot delete non-existent file"), St)
        ELSE Step(i, [c EXCEPT !.pc = "saveMetadata.open",
                               !.json = Some(Stringify(s1.metadata))], s1)

\* the call in progress is never resumed
Abandoned(c) ==
  IF c.pc = "done" THEN c ELSE [c EXCEPT !.status = "abandoned", !.at = c.pc,
                                         !.pc = "done"]

\* the process stops inside a call and a new session starts on the root
Crash ==
  /\ ~Quiescent
  /\ nops < MaxRestarts
  /\ DoCall("initialize", "", "", None, newSession(St))
  /\ calls' = [i \in DOMAIN calls |-> Abandoned(calls[i])]
  /\ UNCHANGED held

NextCrash ==
  \/ CallStore \/ CallRetrieve \/ CallUpdate \/ CallRemove
  \/ \E i \in DOMAIN calls : UpdateAccess(i)
  \/ \E i \in DOMAIN calls : StoreMkdir(i)
  \/ \E i \in DOMAIN calls : StoreOpen(i)
  \/ \E i \in DOMAIN calls : StoreWrite(i)
  \/ \E i \in DOMAIN calls : StoreStat(i)
  \/ \E i \in DOMAIN calls : RetrieveRead(i)
  \/ \E i \in DOMAIN calls : RemoveUnlink(i)
  \/ \E i \in DOMAIN calls : SaveOpen(i)
  \/ \E i \in DOMAIN calls : SaveWrite(i)
  \/ Restart
  \/ Crash

SpecCrash == Init /\ [][NextCrash]_vars

\* --------------------------------------------------- overlapping writers
\* Calls of every kind issued without awaiting one another, all for one
\* entry that was stored before; the k-th call issued brings the k-th
\* content, so overlapping writers bring different contents.
MaxWriters == 2
WriteName == "x.md"
OriginalContent == <<"o">>
Letters == <<"a", "b", "c", "d">>
WriteContent(k) == [j \in 1..k |-> Letters[k]]

InitWrites ==
  LET r == store([files |-> [k \in Cats \X Names |-> None], dirs |-> FixedCats,
                  indexFile |-> None, metadata |-> <<>>],
                 WriteName, OriginalContent, DefaultCategory, 0)
  IN /\ files = r.st.files
     /\ dirs = r.st.dirs
     /\ indexFile = r.st.indexFile
     /\ metadata = r.st.metadata
     /\ now = 0
     /\ last = [op |-> "store", name |-> WriteName, cat |-> DefaultCategory,
                arg |-> Some(OriginalContent),
                preMeta |-> None, preFile |-> None, preTotal |-> 0,
                status |-> "ok", error |-> "", content |-> None,
                meta |-> r.meta, listing |-> <<>>]
     /\ reads = [n \in Names |-> IF n = WriteName THEN 0 ELSE -1]
     /\ nops = 1
     /\ held = <<>>
     /\ calls = <<>>

IssueWriter(op, arg, pc) ==
  /\ Len(calls) < MaxWriters
  /\ calls' = Append(calls, NewCall(op, WriteName, DefaultCategory, arg, pc))
  /\ UNCHANGED <<files, dirs, indexFile, metadata, now, last, reads, nops, held>>

WriterStore == IssueWriter("store", Some(WriteContent(Len(calls) + 1)), "mkdir")
WriterUpdate == IssueWriter("update", Some(WriteContent(Len(calls) + 1)), "access")
WriterAppend == IssueWriter("append", Some(WriteContent(Len(calls) + 1)), "readFile")
WriterRemove == IssueWriter("remove", None, "unlink")
WriterRetrieve == IssueWriter("retrieve", None, "readFile")
WriterList == IssueWriter("list", None, "readdir")
WriterClear == IssueWriter("clear", None, "rm")

\* append: await this.retrieve(filename, category) up to its saveMetadata,
\* then the new content is made of what was read
AppendRead(i) ==
  LET c == calls[i]
      e == <<c.cat, c.name>>
      content == Utf8Decode(Val(files[e]))
      more == [c EXCEPT !.arg = Some(content \o <<"n">> \o Val(c.arg)),
                        !.content = Some(content)]
  IN /\ c.op = "append" /\ c.pc = "readFile"
     /\ IF ~FileExists(St, c.cat, c.name)
        THEN Step(i, Rejected(c, "Memory file not found"), St)
        ELSE IF MapHas(metadata, c.name)
        THEN LET rec == [MapGet(metadata, c.name) EXCEPT
                           !.accessCount = @ + 1, !.lastUpdated = now]
                 s1 == [St EXCEPT !.metadata = MapSet(@, c.name, rec)]
             IN Step(i, [more EXCEPT !.pc = "saveMetadata.open", !.next = "access",
                                     !.json = Some(Stringify(s1.metadata))], s1)
        ELSE Step(i, [more EXCEPT !.pc = "access"], St)

\* list: await fs.readdir; whatever happens the call returns a list, which
\* is not kept
ListReaddir(i) ==
  /\ calls[i].op = "list" /\ calls[i].pc = "readdir"
  /\ Step(i, [calls[i] EXCEPT !.pc = "done", !.status = "ok"], St)

\* clear: await fs.rm(memoryRoot, {recursive: true, force: true})
ClearRm(i) ==
  /\ calls[i].op = "clear" /\ calls[i].pc = "rm"
  /\ Step(i, [calls[i] EXCEPT !.pc = "initialize.mkdir"],
          [St EXCEPT !.files = [k \in DOMAIN files |-> None], !.dirs = {},
                     !.indexFile = None])

\* ... then initialize: the directories
ClearMkdir(i) ==
  /\ calls[i].op = "clear" /\ calls[i].pc = "initialize.mkdir"
  /\ Step(i, [calls[i] EXCEPT !.pc = "loadMetadata"],
          [St EXCEPT !.dirs = @ \cup FixedCats])

\* ... and loadMetadata, which replaces the Map
ClearLoad(i) ==
  /\ calls[i].op = "clear" /\ calls[i].pc = "loadMetadata"
  /\ Step(i, [calls[i] EXCEPT !.pc = "done", !.status = "ok"], loadMetadata(St).st)

WriterStep ==
  \/ \E i \in DOMAIN calls : StoreMkdir(i)
  \/ \E i \in DOMAIN calls : StoreOpen(i)
  \/ \E i \in DOMAIN calls : StoreWrite(i)
  \/ \E i \in DOMAIN calls : StoreStat(i)
  \/ \E i \in DOMAIN calls : UpdateAccess(i)
  \/ \E i \in DOMAIN calls : AppendRead(i)
  \/ \E i \in DOMAIN calls : RetrieveRead(i)
  \/ \E i \in DOMAIN calls : RemoveUnlink(i)
  \/ \E i \in DOMAIN calls : SaveOpen(i)
  \/ \E i \in DOMAIN calls : SaveWrite(i)
  \/ \E i \in DOMAIN calls : ListReaddir(i)
  \/ \E i \in DOMAIN calls : ClearRm(i)
  \/ \E i \in DOMAIN calls : ClearMkdir(i)
  \/ \E i \in DOMAIN calls : ClearLoad(i)

NextWrites ==
  \/ WriterStore \/ WriterUpdate \/ WriterAppend \/ WriterRemove
  \/ WriterRetrieve \/ WriterList \/ WriterClear
  \/ WriterStep

SpecWrites == InitWrites /\ [][NextWrites]_vars

\* Calls of pairwise different kinds issued without awaiting one another,
\* with every filesystem operation a call awaits returning in the end.
CompleteIssue(op, Issued) ==
  /\ \A i \in DOMAIN calls : calls[i].op # op
  /\ Issued

NextComplete ==
  \/ CompleteIssue("store", WriterStore)
  \/ CompleteIssue("update", WriterUpdate)
  \/ CompleteIssue("append", WriterAppend)
  \/ CompleteIssue("remove", WriterRemove)
  \/ CompleteIssue("retrieve", WriterRetrieve)
  \/ CompleteIssue("list", WriterList)
  \/ CompleteIssue("clear", WriterClear)
  \/ WriterStep

SpecComplete == InitWrites /\ [][NextComplete]_vars /\ WF_vars(WriterStep)

\* ------------------------------------------------------------ statistics
\* A store that holds up to MaxRecords entries, more than getStats reports:
\* the entries were stored one after the other under the default category,
\* then retrieve and getStats are called.
StatNameList ==
  <<"f01.md", "f02.md", "f03.md", "f04.md", "f05.md", "f06.md", "f07.md",
    "f08.md", "f09.md", "f10.md", "f11.md", "f12.md", "f13.md">>
StatNames == {StatNameList[i] : i \in 1..MaxRecords}
StatContent(i) == IF i % 2 = 1 THEN <<"a">> ELSE <<"H", "L">>

RECURSIVE StoreAll(_, _)
StoreAll(s, k) ==
  IF k = 0 THEN s
  ELSE store(StoreAll(s, k - 1), StatNameList[k], StatContent(k), DefaultCategory, 0).st

InitStats ==
  \E k \in 0..MaxRecords :
    LET s == StoreAll([files |-> [e \in {DefaultCategory} \X StatNames |-> None],
                       dirs |-> FixedCats, indexFile |-> None, metadata |-> <<>>], k)
    IN /\ files = s.files
       /\ dirs = s.dirs
       /\ indexFile = s.indexFile
       /\ metadata = s.metadata
       /\ now = 0
       /\ last = [op |-> "initialize", name |-> "", cat |-> "", arg |-> None,
                  preMeta |-> None, preFile |-> None, preTotal |-> 0,
                  status |-> "ok", error |-> "",
                  content |-> None, meta |-> None, listing |-> <<>>]
       /\ reads = [n \in StatNames |-> IF MapHas(s.metadata, n) THEN 0 ELSE -1]
       /\ nops = 0
       /\ held = <<>>
       /\ calls = <<>>

StatsRetrieve ==
  \E filename \in StatNames :
    Do("retrieve", filename, DefaultCategory, None,
       retrieve(St, filename, DefaultCategory, now))

StatsGet ==
  Do("getStats", "", "", None, Listing(St, getStats(St).mostAccessed))

NextStats == StatsRetrieve \/ StatsGet

SpecStats == InitStats /\ [][NextStats]_vars

\* ------------------------------------------------------ failing filesystem
\* A call during which one filesystem function fails on one kind of path,
\* each time the call uses it: a fault names the function, the path (a
\* content file, the index file, a directory) and the error code. The
\* result of a call says whether the failing function was reached.
MaxFaultOps == 3
Faults ==
  {[fn |-> "mkdir", on |-> "dir", code |-> "EACCES"],
   [fn |-> "writeFile", on |-> "content", code |-> "EACCES"],
   [fn |-> "writeFile", on |-> "index", code |-> "EACCES"],
   [fn |-> "writeFile", on |-> "index", code |-> "ENOENT"],
   [fn |-> "readFile", on |-> "content", code |-> "EACCES"],
   [fn |-> "readFile", on |-> "index", code |-> "EACCES"],
   [fn |-> "stat", on |-> "content", code |-> "EACCES"],
   [fn |-> "access", on |-> "content", code |-> "EACCES"],
   [fn |-> "unlink", on |-> "content", code |-> "EACCES"],
   [fn |-> "readdir", on |-> "dir", code |-> "EACCES"],
   [fn |-> "rm", on |-> "dir", code |-> "EACCES"]}
FaultContent == <<"a">>
FaultExtra == <<"b">>

Fails(f, fn, on) == f # None /\ Val(f).fn = fn /\ Val(f).on = on
Hit(r) == [hit |-> TRUE] @@ r
Miss(r) == [hit |-> FALSE] @@ r
\* if (error.code === 'ENOENT') throw new Error(msg); throw error
Wrap(r, msg) == IF r.error = "ENOENT" THEN [r EXCEPT !.error = msg] ELSE r

saveMetadataF(s, f) ==
  IF Fails(f, "writeFile", "index") THEN Hit(Err(s, Val(f).code))
  ELSE Miss(Ok(saveMetadata(s), None, None))

\* the catch of loadMetadata takes a failed read as it takes a missing file
loadMetadataF(s, f) ==
  IF Fails(f, "readFile", "index") THEN Hit(Ok([s EXCEPT !.metadata = <<>>], None, None))
  ELSE Miss(loadMetadata(s))

initializeF(s, f) ==
  IF Fails(f, "mkdir", "dir") THEN Hit(Err(s, Val(f).code))
  ELSE loadMetadataF([s EXCEPT !.dirs = @ \cup FixedCats], f)

storeF(s, filename, content, category, t, f) ==
  LET s1 == [s EXCEPT !.dirs = @ \cup {category}]
      s2 == [s1 EXCEPT !.files[<<category, filename>>] = Some(Utf8Encode(content))]
      rec == [filePath |-> RelPath(category, filename),
              contentHash |-> Sha256Hex(content),
              lastUpdated |-> t,
              accessCount |-> 0,
              size |-> ByteLen(Val(s2.files[<<category, filename>>]))]
      s3 == [s2 EXCEPT !.metadata = MapSet(@, filename, rec)]
  IN IF Fails(f, "mkdir", "dir") THEN Hit(Err(s, Val(f).code))
     ELSE IF Fails(f, "writeFile", "content") THEN Hit(Err(s1, Val(f).code))
     ELSE IF Fails(f, "stat", "content") THEN Hit(Err(s2, Val(f).code))
     ELSE IF saveMetadataF(s3, f).status = "error" THEN saveMetadataF(s3, f)
     ELSE Miss(Ok(saveMetadataF(s3, f).st, None, Some(rec)))

retrieveF(s, filename, category, t, f) ==
  IF ~FileExists(s, category, filename)
  THEN Miss(Err(s, "Memory file not found"))
  ELSE IF Fails(f, "readFile", "content") THEN Hit(Err(s, Val(f).code))
  ELSE LET content == Utf8Decode(Val(s.files[<<category, filename>>]))
       IN IF MapHas(s.metadata, filename)
          THEN LET rec == [MapGet(s.metadata, filename) EXCEPT
                             !.accessCount = @ + 1, !.lastUpdated = t]
                   s1 == [s EXCEPT !.metadata = MapSet(@, filename, rec)]
               IN IF saveMetadataF(s1, f).status = "error"
                  THEN Wrap(saveMetadataF(s1, f), "Memory file not found")
                  ELSE Miss(Ok(saveMetadataF(s1, f).st, Some(content), Some(rec)))
          ELSE Miss(Ok(s, Some(content),
                       Some([filePath |-> RelPath(category, filename),
                             contentHash |-> Sha256Hex(content),
                             lastUpdated |-> t,
                             accessCount |-> 1,
                             size |-> Len(content)])))

updateF(s, filename, content, category, t, f) ==
  IF ~FileExists(s, category, filename)
  THEN Miss(Err(s, "Cannot update non-existent file"))
  ELSE IF Fails(f, "access", "content") THEN Hit(Err(s, Val(f).code))
  ELSE Wrap(storeF(s, filename, content, category, t, f),
            "Cannot update non-existent file")

appendF(s, filename, additionalContent, category, t, f) ==
  LET r == retrieveF(s, filename, category, t, f)
  IN IF r.status = "error" THEN r
     ELSE updateF(r.st, filename, Val(r.content) \o <<"n">> \o additionalContent,
                  category, t, f)

removeF(s, filename, category, f) ==
  IF ~FileExists(s, category, filename)
  THEN Miss(Err(s, "Cannot delete non-existent file"))
  ELSE IF Fails(f, "unlink", "content") THEN Hit(Err(s, Val(f).code))
  ELSE LET s1 == [s EXCEPT !.files[<<category, filename>>] = None,
                           !.metadata = MapDelete(@, filename)]
       IN IF saveMetadataF(s1, f).status = "error"
          THEN Wrap(saveMetadataF(s1, f), "Cannot delete non-existent file")
          ELSE Miss(Ok(saveMetadataF(s1, f).st, None, None))

\* a list that throws what readdir throws
listFThrows(s, category, entries, f) ==
  IF ~DirExists(s, category) THEN Miss(Err(s, "ENOENT"))
  ELSE IF Fails(f, "readdir", "dir") THEN Hit(Err(s, Val(f).code))
  ELSE Miss(list(s, category, entries))

\* the catch of list logs the error and returns []
listF(s, category, entries, f) ==
  IF ~DirExists(s, category) THEN Miss(Listing(s, <<>>))
  ELSE IF Fails(f, "readdir", "dir") THEN Hit(Listing(s, <<>>))
  ELSE Miss(list(s, category, entries))

clearF(s, f) ==
  IF Fails(f, "rm", "dir") THEN Hit(Err(s, Val(f).code))
  ELSE initializeF([s EXCEPT !.files = [k \in DOMAIN s.files |-> None],
                            !.dirs = {},
                            !.indexFile = None], f)

\* a call with a fault: the call record keeps the fault if it was reached
DoFault(op, filename, category, f, r) ==
  /\ DoUpTo(MaxFaultOps, op, filename, category, IF r.hit THEN f ELSE None, r)
  /\ UNCHANGED <<held, calls>>

MaybeFault == {None} \cup {Some(f) : f \in Faults}

FaultInitialize ==
  \E f \in MaybeFault :
    DoFault("initialize", "", "", f, initializeF([St EXCEPT !.metadata = <<>>], f))

FaultStore ==
  \E filename \in Names, category \in CallCats, f \in MaybeFault :
    DoFault("store", filename, category, f,
            storeF(St, filename, FaultContent, category, now, f))

FaultRetrieve ==
  \E filename \in Names, category \in CallCats, f \in MaybeFault :
    DoFault("retrieve", filename, category, f,
            retrieveF(St, filename, category, now, f))

FaultUpdate ==
  \E filename \in Names, category \in CallCats, f \in MaybeFault :
    DoFault("update", filename, category, f,
            updateF(St, filename, FaultContent, category, now, f))

FaultAppend ==
  \E filename \in Names, category \in CallCats, f \in MaybeFault :
    DoFault("append", filename, category, f,
            appendF(St, filename, FaultExtra, category, now, f))

FaultRemove ==
  \E filename \in Names, category \in CallCats, f \in MaybeFault :
    DoFault("remove", filename, category, f, removeF(St, filename, category, f))

FaultList ==
  \E category \in {None} \cup {Some(c) : c \in CallCats}, f \in MaybeFault :
    \E entries \in Readdir(St, category) :
      DoFault("list", "", IF category = None THEN "" ELSE Val(category), f,
              listF(St, category, entries, f))

FaultClear ==
  \E f \in MaybeFault : DoFault("clear", "", "", f, clearF(St, f))

NextFaults ==
  \/ FaultInitialize \/ FaultStore \/ FaultRetrieve \/ FaultUpdate \/ FaultAppend
  \/ FaultRemove \/ FaultList \/ FaultClear

SpecFaults == Init /\ [][NextFaults]_vars

\* ---------------------------------------------------------------- listing
\* Entries with a hidden name, with a name that is also the name of a nested
\* category directory, and with one name under a category and under the
\* category nested in it.
MaxListOps == 4
ListEntries ==
  {<<"personalities", "x.md">>, <<"personalities", ".hidden.md">>,
   <<"personalities/technical", "x.md">>, <<"system", "technical">>}
ListCats == {"system", "personalities", "personalities/technical"}
ListContent == <<"a">>

InitList ==
  /\ files = [e \in ListEntries |-> None]
  /\ dirs = FixedCats
  /\ indexFile = None
  /\ metadata = <<>>
  /\ now = 0
  /\ last = [op |-> "initialize", name |-> "", cat |-> "", arg |-> None,
             preMeta |-> None, preFile |-> None, preTotal |-> 0,
             status |-> "ok", error |-> "",
             content |-> None, meta |-> None, listing |-> <<>>]
  /\ reads = [n \in {e[2] : e \in ListEntries} |-> -1]
  /\ nops = 0
  /\ held = <<>>
  /\ calls = <<>>

ListStore ==
  \E e \in ListEntries :
    /\ DoUpTo(MaxListOps, "store", e[2], e[1], Some(ListContent),
              store(St, e[2], ListContent, e[1], now))
    /\ UNCHANGED <<held, calls>>

ListRemove ==
  \E e \in ListEntries :
    /\ DoUpTo(MaxListOps, "remove", e[2], e[1], None, remove(St, e[2], e[1]))
    /\ UNCHANGED <<held, calls>>

ListList ==
  \E category \in {None} \cup {Some(c) : c \in ListCats} :
    \E entries \in Readdir(St, category) :
      /\ DoUpTo(MaxListOps, "list", "", IF category = None THEN "" ELSE Val(category),
                None, list(St, category, entries))
      /\ UNCHANGED <<held, calls>>

NextList == ListStore \/ ListRemove \/ ListList

SpecList == InitList /\ [][NextList]_vars

\* ----------------------------------------------------------------- claims
Returned == last.status = "ok"
NotFoundErrors ==
  {"Memory file not found", "Cannot update non-existent file",
   "Cannot delete non-existent file"}
Entry(category, filename) == <<category, filename>>
StoredBytes(filename, category) == Val(files[Entry(category, filename)])
HasFile(category, filename) == FileExists(St, category, filename)
Rec(filename) == MapGet(metadata, filename)

\* C1, as stated: once store(name, content, category) has returned,
\* retrieve(name, category) on the same instance succeeds and returns exactly
\* content, whatever the content.
C1_RoundTripAnyContent ==
  (last.op = "store" /\ Returned) =>
    LET r == retrieve(St, last.name, last.cat, now)
    IN r.status = "ok" /\ r.content = last.arg

\* C1, amended: once store(name, content, category) has returned for a content
\* with no unpaired surrogate code unit, retrieve(name, category) on the same
\* instance succeeds and returns exactly content.
C1_RoundTrip ==
  (last.op = "store" /\ Returned /\ WellFormed(Val(last.arg))) =>
    LET r == retrieve(St, last.name, last.cat, now)
    IN r.status = "ok" /\ r.content = last.arg

\* a store of a surrogate pair has replaced a file that held something else
C1_Witness ==
  /\ last.op = "store" /\ Returned
  /\ last.arg = Some(<<"H", "L">>)
  /\ last.preFile # None
  /\ last.preFile # Some(Utf8Encode(Val(last.arg)))

\* C2: retrieve, update, remove and append of a name that has no file in the
\* given category fail with the not-found error of the operation, and the
\* failed call changes no file, no directory, no index record and not the
\* index file.
C2_NotFound ==
  [][(/\ nops' = nops + 1
      /\ last'.op \in {"retrieve", "update", "remove", "append"}
      /\ ~HasFile(last'.cat, last'.name))
     => (/\ last'.status = "error"
         /\ last'.error \in NotFoundErrors
         /\ UNCHANGED <<files, dirs, indexFile, metadata>>)]_vars

\* a call failed for a name that has a file in another category and a record
C2_Witness ==
  /\ last.op \in {"retrieve", "update", "remove", "append"}
  /\ last.status = "error"
  /\ last.preMeta # None
  /\ \E c \in Cats : c # last.cat /\ HasFile(c, last.name)

\* C3: when a name has been read N times since it was last written (stored,
\* updated or appended to; no remove of the name and no clear since), its
\* index record has accessCount N, and the retrieve that made the count N
\* returned metadata with accessCount N.
C3_AccessCounting ==
  \A n \in Names :
    reads[n] >= 0 =>
      /\ MapHas(metadata, n)
      /\ Rec(n).accessCount = reads[n]
      /\ (last.op = "retrieve" /\ Returned /\ last.name = n)
           => Val(last.meta).accessCount = reads[n]

\* the second retrieve in a row of a stored name has returned
C3_Witness ==
  /\ last.op = "retrieve" /\ Returned
  /\ reads[last.name] = 2
  /\ last.preMeta # None /\ Val(last.preMeta).accessCount = 1

\* C4: a successful store or update of a name returns metadata with
\* accessCount 0, and afterwards the index record of the name is that
\* metadata: accessCount 0, contentHash the digest of the new content and size
\* the byte length of the new content.
C4_WriteResets ==
  (last.op \in {"store", "update"} /\ Returned) =>
    /\ Val(last.meta).accessCount = 0
    /\ MapHas(metadata, last.name)
    /\ Rec(last.name) = Val(last.meta)
    /\ Rec(last.name).contentHash = Sha256Hex(Val(last.arg))
    /\ Rec(last.name).size = ByteLen(Utf8Encode(Val(last.arg)))
    /\ Rec(last.name).size = ByteLen(StoredBytes(last.name, last.cat))

\* an update has replaced the content of an entry that had been read
C4_Witness ==
  /\ last.op = "update" /\ Returned
  /\ last.preMeta # None
  /\ Val(last.preMeta).accessCount > 0
  /\ Val(last.preMeta).contentHash # Val(last.meta).contentHash
  /\ Val(last.preMeta).size # Val(last.meta).size

AppendEffect(newContent) ==
  /\ retrieve(St, last.name, last.cat, now).content = Some(newContent)
  /\ MapHas(metadata, last.name)
  /\ Rec(last.name).accessCount = 0
  /\ Rec(last.name).contentHash = Sha256Hex(newContent)
  /\ Rec(last.name).size = ByteLen(Utf8Encode(newContent))

\* C5, as stated: after append(name, extra, category) of an entry with content
\* old, the content is old + "\n" + extra, the accessCount 0, and hash and
\* size are those of the new content, whatever the extra text.
C5_AppendAnyExtra ==
  (last.op = "append" /\ Returned) =>
    AppendEffect(Utf8Decode(Val(last.preFile)) \o <<"n">> \o Val(last.arg))

\* C5, amended: after append(name, extra, category) of an entry with content
\* old, for an extra text with no unpaired surrogate code unit, the content is
\* old + "\n" + extra, the accessCount 0, and hash and size are those of the
\* new content; successive appends accumulate in call order.
C5_Append ==
  (last.op = "append" /\ Returned /\ WellFormed(Val(last.arg))) =>
    AppendEffect(Utf8Decode(Val(last.preFile)) \o <<"n">> \o Val(last.arg))

\* a second append has added its text after the text of the first
C5_Witness ==
  /\ last.op = "append" /\ Returned
  /\ WellFormed(Val(last.arg))
  /\ \E i \in 1..Len(Val(last.preFile)) : Val(last.preFile)[i] = "n"
  /\ Len(Utf8Decode(StoredBytes(last.name, last.cat))) >= 5

\* C6: after remove(name, category) has returned, retrieve(name, category)
\* fails with not-found, no result of list(category) has a record of the name,
\* neither the in-memory index nor the index file has the key, and getStats
\* counts only the other names.
C6_RemoveComplete ==
  (last.op = "remove" /\ Returned) =>
    /\ retrieve(St, last.name, last.cat, now).status = "error"
    /\ retrieve(St, last.name, last.cat, now).error = "Memory file not found"
    /\ \A l \in ListResults(St, Some(last.cat)) :
         \A i \in 1..Len(l) : l[i].filePath[2] # last.name
    /\ ~MapHas(metadata, last.name)
    /\ indexFile # None /\ ~MapHas(Val(indexFile), last.name)
    /\ getStats(St).totalFiles = Cardinality(MapKeys(metadata) \ {last.name})
    /\ \A i \in 1..Len(getStats(St).mostAccessed) :
         getStats(St).mostAccessed[i].filePath[2] # last.name

\* a tracked entry was removed while another entry stays in the index
C6_Witness ==
  /\ last.op = "remove" /\ Returned
  /\ last.preMeta # None
  /\ metadata # <<>>

\* C7: a new instance constructed and initialized on the root an abandoned
\* instance worked on sees the same files and has the same index; every
\* retrieve returns in it what it would have returned in the abandoned
\* instance (same content, accessCount one more than the count accumulated
\* before), and getStats gives the same statistics.
C7_CrossSession ==
  [][(nops' = nops + 1 /\ last'.op = "initialize")
     => (/\ files' = files
         /\ metadata' = metadata
         /\ getStats(St') = getStats(St)
         /\ \A n \in Names, c \in Cats :
              retrieve(St', n, c, now') = retrieve(St, n, c, now))]_vars

\* a new session started on a root holding an entry that had been read
C7_Witness ==
  /\ last.op = "initialize" /\ nops > 0
  /\ \E n \in Names, c \in Cats :
       /\ HasFile(c, n)
       /\ MapHas(metadata, n)
       /\ Rec(n).accessCount > 0
       /\ Rec(n).filePath = RelPath(c, n)

TrackedFiles(category) == {n \in Names : HasFile(category, n) /\ MapHas(metadata, n)}

\* C8: after store(x, c1, catA) and store(y, c2, catB) on an empty store,
\* list(catA) is the record of x alone and list(catB) the record of y alone;
\* in general every result of list(category) has exactly one record for each
\* tracked name that has a file in the category, and none for a name whose
\* files are all in other categories.
C8_CategoryIsolation ==
  \A c \in Cats : \A l \in ListResults(St, Some(c)) :
    /\ Len(l) = Cardinality(TrackedFiles(c))
    /\ \A n \in TrackedFiles(c) : \E i \in 1..Len(l) : l[i] = Rec(n)
    /\ \A n \in MapKeys(metadata) \ TrackedFiles(c) :
         \A i \in 1..Len(l) : l[i] # Rec(n)

\* x.md is stored under one category only and y.md under the other only
C8_Witness ==
  /\ last.op = "store" /\ Returned
  /\ TrackedFiles("system") = {"x.md"}
  /\ TrackedFiles("catA") = {"y.md"}
  /\ ListResults(St, Some("system")) = {<<Rec("x.md")>>}
  /\ ListResults(St, Some("catA")) = {<<Rec("y.md")>>}

\* C9: list() with no category has a record for every entry stored with the
\* default category.
C9_ListAll ==
  \A l \in ListResults(St, None) :
    \A n \in TrackedFiles(DefaultCategory) :
      \E i \in 1..Len(l) : l[i] = Rec(n)

SortedByLastUpdated(l) ==
  \A i, j \in 1..Len(l) : i < j => l[i].lastUpdated >= l[j].lastUpdated

\* C10: every result of list is sorted by lastUpdated descending, and list()
\* returns an entry of the default category written later on the clock before
\* one written earlier.
C10_Ordering ==
  /\ \A c \in {None} \cup {Some(k) : k \in Cats} :
       \A l \in ListResults(St, c) : SortedByLastUpdated(l)
  /\ \A l \in ListResults(St, None) :
       \A n1, n2 \in TrackedFiles(DefaultCategory) :
         Rec(n1).lastUpdated > Rec(n2).lastUpdated =>
           \E i, j \in 1..Len(l) : i < j /\ l[i] = Rec(n1) /\ l[j] = Rec(n2)
\* C11: whatever the store held, once clear() has returned the fixed category
\* directories exist and nothing else does, the in-memory index is empty, the
\* disk holds no index record, list() and list(category) return nothing,
\* getStats().totalFiles is 0, retrieve of every name under every category
\* fails as not found, and a further clear() leaves exactly this state.
IndexRecordsOnDisk == IF indexFile = None THEN <<>> ELSE Val(indexFile)
C11_IdempotentClear ==
  (last.op = "clear") =>
    /\ Returned
    /\ dirs = FixedCats
    /\ \A n \in Names, c \in Cats : ~HasFile(c, n)
    /\ metadata = <<>>
    /\ IndexRecordsOnDisk = <<>>
    /\ \A category \in {None} \cup {Some(c) : c \in Cats} :
         \A l \in ListResults(St, category) : l = <<>>
    /\ getStats(St).totalFiles = 0
    /\ \A n \in Names, c \in Cats :
         LET r == retrieve(St, n, c, now)
         IN r.status = "error" /\ r.error = "Memory file not found"
    /\ clear(St).st = St
C11_Witness ==
  /\ last.op = "clear"
  /\ last.preTotal > 0
  /\ metadata = <<>>

\* C12: after any sequence of completed calls, over any names and categories,
\* a filename has exactly one index record if some category holds a live file
\* of that name, and none otherwise.
RecordsOf(filename) == {i \in DOMAIN metadata : metadata[i].key = filename}
LiveSomewhere(filename) == \E c \in Cats : HasFile(c, filename)
C12_IndexInvariant ==
  \A n \in Names :
    Cardinality(RecordsOf(n)) = IF LiveSomewhere(n) THEN 1 ELSE 0

\* C13: in every state reached by completed calls, each index record holds
\* the digest and the byte length of the content last written to the file at
\* the record's path, and the metadata a retrieve returns holds the digest of
\* the content that retrieve returns.
RecordDescribesItsFile(rec) ==
  LET c == rec.filePath[1]
      n == rec.filePath[2]
  IN /\ c \in Cats /\ n \in Names
     /\ HasFile(c, n)
     /\ rec.contentHash = [sha256 |-> StoredBytes(n, c)]
     /\ rec.size = ByteLen(StoredBytes(n, c))
C13_HashInvariant ==
  /\ \A i \in DOMAIN metadata : RecordDescribesItsFile(metadata[i].value)
  /\ (last.op = "retrieve" /\ Returned) =>
       Val(last.meta).contentHash = Sha256Hex(Val(last.content))

\* C15: calls do not overlap; after every call has returned, initial state
\* included, the records of the index file on disk are exactly those of the
\* in-memory index, with the same values: a new session would load the
\* in-memory index as it is.
C15_WriteThrough ==
  /\ IndexRecordsOnDisk = Stringify(metadata)
  /\ loadMetadata(St).st.metadata = metadata
C15_Witness ==
  /\ last.op \in {"retrieve", "remove"}
  /\ Returned
  /\ last.preMeta # None
  /\ metadata # <<>>
  /\ indexFile # None

\* C19: the error that retrieve, update and remove raise for a missing name
\* has the text "not found" in its message, for each of the three.
MessageText(msg) ==
  CASE msg = "Memory file not found" -> <<"Memory", "file", "not", "found">>
    [] msg = "Cannot update non-existent file" ->
         <<"Cannot", "update", "non-existent", "file">>
    [] msg = "Cannot delete non-existent file" ->
         <<"Cannot", "delete", "non-existent", "file">>
    [] OTHER -> <<>>
Includes(text, marker) ==
  \E i \in 1..Len(text) :
    /\ i + Len(marker) - 1 <= Len(text)
    /\ SubSeq(text, i, i + Len(marker) - 1) = marker
NotFoundMarker == <<"not", "found">>
C19_NotFoundMarker ==
  (last.op \in {"retrieve", "update", "remove"} /\ last.status = "error") =>
    Includes(MessageText(last.error), NotFoundMarker)

\* C18: getStats reads the in-memory index only. totalFiles is the number of
\* index records, totalSize the sum of their sizes, categories the list
\* system, personalities, projects; mostAccessed holds the ten records, or
\* all if fewer, in non-increasing accessCount order, and no record left out
\* has a larger accessCount than one included. Once a retrieve of a tracked
\* entry has returned, getStats computes with the accessCount it returned.
Sum(f, S) ==
  LET RECURSIVE Acc(_)
      Acc(T) == IF T = {} THEN 0
                ELSE LET x == CHOOSE y \in T : TRUE IN f[x] + Acc(T \ {x})
  IN Acc(S)
Elems(l) == {l[i] : i \in DOMAIN l}
C18_GetStats ==
  LET stats == getStats(St)
      top == stats.mostAccessed
      all == Elems(MapValues(metadata))
  IN /\ stats = getStats([St EXCEPT !.files = [e \in DOMAIN files |-> None],
                                     !.dirs = {}, !.indexFile = None])
     /\ stats.totalFiles = Len(metadata)
     /\ stats.totalSize = Sum([i \in DOMAIN metadata |-> metadata[i].value.size],
                              DOMAIN metadata)
     /\ stats.categories = <<"system", "personalities", "projects">>
     /\ Len(top) = IF Len(metadata) < 10 THEN Len(metadata) ELSE 10
     /\ Cardinality(Elems(top)) = Len(top)
     /\ Elems(top) \subseteq all
     /\ \A i, j \in DOMAIN top : i < j => top[i].accessCount >= top[j].accessCount
     /\ \A out \in all \ Elems(top), kept \in Elems(top) :
          out.accessCount <= kept.accessCount
     /\ (last.op = "retrieve" /\ Returned /\ last.preMeta # None) =>
          /\ Val(last.meta) \in all
          /\ Len(metadata) <= 10 => Val(last.meta) \in Elems(top)
     /\ (last.op = "getStats") => last.listing = top
C18_Witness ==
  /\ last.op = "getStats"
  /\ Len(metadata) > 10
  /\ \E out \in Elems(MapValues(metadata)) \ Elems(last.listing) :
       out.accessCount = 0
  /\ \E i, j \in DOMAIN last.listing :
       last.listing[i].accessCount > last.listing[j].accessCount
  /\ metadata[Len(metadata)].value \in Elems(last.listing)

\* C20: the caller keeps the metadata each call returned and compares them
\* once the calls have returned. Of retrieves of one stored entry made in a
\* row, each later one's metadata has a strictly greater accessCount than
\* each earlier one's; and the metadata a retrieve or a store returned still
\* has the value it had when it was returned.
InARow(i, j) ==
  \A k \in i..j :
    /\ held[k].op = "retrieve"
    /\ held[k].name = held[i].name
    /\ held[k].cat = held[i].cat
C20_ReturnedMetadata ==
  /\ \A i, j \in DOMAIN held :
       (i < j /\ InARow(i, j)) =>
         held[j].value.accessCount > held[i].value.accessCount
  /\ \A i \in DOMAIN held : held[i].value = held[i].returned

\* A step in which a write of the name puts a new record in the index: an
\* awaited store, update or append that returns, or the step of an
\* overlapping store that follows its stat.
WriteOf(n) ==
  \/ /\ nops' = nops + 1
     /\ last'.op \in {"store", "update", "append"}
     /\ last'.name = n
     /\ last'.status = "ok"
  \/ \E i \in DOMAIN calls :
       /\ calls[i].op = "store" /\ calls[i].name = n
       /\ calls[i].pc = "stat" /\ calls'[i].pc = "saveMetadata.open"
CountKept(n) ==
  (MapHas(metadata, n) /\ MapHas(metadata', n) /\ ~WriteOf(n)) =>
    MapGet(metadata', n).accessCount >= MapGet(metadata, n).accessCount
NoOverlap == \A i \in DOMAIN calls : calls[i].alone

\* C14, as stated: in no step other than a write of the name does the
\* accessCount recorded for a name get smaller, whether the step belongs to a
\* call of the session or starts a new session on the same root.
C14_CounterMonotone == [][\A n \in Names : CountKept(n)]_vars

\* C14, amended: when no call is issued before the one before it has
\* returned, in no step other than a write of the name does the accessCount
\* recorded for a name get smaller, within a session and across a restart.
C14_CounterMonotoneNoOverlap ==
  [][NoOverlap' => \A n \in Names : CountKept(n)]_vars
C14_Witness ==
  /\ last.op = "initialize" /\ nops = 1
  /\ calls # <<>> /\ NoOverlap
  /\ \E i \in DOMAIN calls :
       /\ calls[i].op = "retrieve" /\ calls[i].status = "ok"
       /\ MapHas(metadata, calls[i].name)
       /\ MapGet(metadata, calls[i].name).accessCount
            = Val(calls[i].meta).accessCount
       /\ Val(calls[i].meta).accessCount >= 1

\* C16: store calls for pairwise distinct names are issued on one instance
\* without awaiting one another. No call is rejected and none is ever unable
\* to go on; once all have returned, each has returned successfully, the
\* in-memory index has a record for each name and retrieve of each name
\* returns the content stored under it.
OnlyDistinctStores ==
  /\ nops = 0
  /\ calls # <<>>
  /\ \A i \in DOMAIN calls : calls[i].op = "store"
  /\ \A i, j \in DOMAIN calls : i # j => calls[i].name # calls[j].name
CanGoOn(i) ==
  ENABLED (\/ StoreMkdir(i) \/ StoreOpen(i) \/ StoreWrite(i) \/ StoreStat(i)
           \/ SaveOpen(i) \/ SaveWrite(i))
C16_ConcurrentStores ==
  OnlyDistinctStores =>
    /\ \A i \in DOMAIN calls :
         /\ calls[i].status # "error"
         /\ calls[i].pc # "done" => CanGoOn(i)
    /\ Quiescent =>
         \A i \in DOMAIN calls :
           /\ calls[i].status = "ok"
           /\ MapHas(metadata, calls[i].name)
           /\ Rec(calls[i].name) = Val(calls[i].meta)
           /\ LET r == retrieve(St, calls[i].name, calls[i].cat, now)
              IN r.status = "ok" /\ r.content = calls[i].arg
C16_Witness ==
  /\ OnlyDistinctStores
  /\ Quiescent
  /\ Len(calls) >= 2
  /\ \E i \in DOMAIN calls : ~calls[i].alone
  /\ Len(metadata) = Len(calls)

\* the step in which the write of the index file of call i finishes
SaveFinishes(i) ==
  calls[i].pc = "saveMetadata.write" /\ calls'[i].pc = "done"

\* C17, as stated: of the writes of the index file that overlapping calls
\* make, the last to finish wins: when a write finishes the file holds the
\* text that call wrote. A new session has the records of the file, so it
\* lacks the updates the file lacks.
StartsSession == nops' = nops + 1 /\ last'.op = "initialize"
LoadsTheFile ==
  StartsSession =>
    metadata' = IF indexFile # None /\ IsJson(Val(indexFile))
                THEN loadMetadata(St).st.metadata ELSE <<>>
C17_LastWriteWins ==
  [][/\ \A i \in DOMAIN calls : SaveFinishes(i) => indexFile' = calls[i].json
     /\ LoadsTheFile]_vars

\* C17, amended: when a write of the index file finishes, the file holds the
\* text that call wrote, unless the file held a longer text then, written by
\* an overlapping call since this one opened the file: then the file is left
\* with a text that does not parse. A new session has the records of the
\* file, none if it does not parse, so it lacks the updates the file lacks.
C17_IndexRace ==
  [][/\ \A i \in DOMAIN calls :
          SaveFinishes(i) =>
            \/ indexFile' = calls[i].json
            \/ /\ ~IsJson(Val(indexFile'))
               /\ TextLen(Val(indexFile)) > TextLen(Val(calls[i].json))
     /\ LoadsTheFile]_vars
\* all calls have returned, the persisted index lacked a record the
\* in-memory index held, and the new session has lost it
C17_Witness ==
  /\ last.op = "initialize" /\ nops = 1
  /\ calls # <<>>
  /\ \A i \in DOMAIN calls : calls[i].status = "ok"
  /\ IsJson(Val(indexFile))
  /\ 0 < Len(metadata) /\ Len(metadata) < last.preTotal

\* The state after the step, and what the store reports of an entry: the
\* accessCount and lastUpdated of the record list(category) returns for it
\* (none if list leaves it out), and the accessCount the next retrieve of
\* the entry would return.
StAfter == [files |-> files', dirs |-> dirs', indexFile |-> indexFile',
            metadata |-> metadata']
Reported(s, category, filename) ==
  [listed |-> IF MapHas(s.metadata, filename)
              THEN Some([accessCount |-> MapGet(s.metadata, filename).accessCount,
                         lastUpdated |-> MapGet(s.metadata, filename).lastUpdated])
              ELSE None,
   retrieved |-> Val(retrieve(s, filename, category, 0).meta).accessCount]

\* C21: a retrieve(name, category) that returns leaves what the store
\* reports of every other entry that has a file as it was, entries of the
\* same name under another category included.
C21_SeparateCounts ==
  [][(nops' = nops + 1 /\ last'.op = "retrieve" /\ last'.status = "ok") =>
       \A c \in Cats, n \in Names :
         (<<c, n>> # <<last'.cat, last'.name>> /\ HasFile(c, n)) =>
           Reported(StAfter, c, n) = Reported(St, c, n)]_vars


IndexUnusable == indexFile = None \/ ~IsJson(Val(indexFile))
NewInstance == nops' = nops + 1 /\ last'.op = "initialize"

\* C22: every initialize of a new instance returns normally whatever the index
\* file holds; with no index file, or with one that does not parse, the Map
\* is empty afterwards; no content file changes, and each content file on
\* disk is then retrieved with the content it holds.
C22_IndexRecovery ==
  [][NewInstance =>
       /\ last'.status = "ok"
       /\ IndexUnusable => metadata' = <<>>
       /\ files' = files
       /\ \A c \in Cats, n \in Names :
            HasFile(c, n) =>
              /\ retrieve(StAfter, n, c, now).status = "ok"
              /\ retrieve(StAfter, n, c, now).content
                   = Some(Utf8Decode(StoredBytes(n, c)))]_vars

\* a new instance has started on an index file that does not parse, next to
\* a content file that is not empty
C22_Witness ==
  /\ last.op = "initialize" /\ nops = 1 /\ last.status = "ok"
  /\ indexFile # None /\ ~IsJson(Val(indexFile))
  /\ metadata = <<>>
  /\ \E c \in Cats, n \in Names : HasFile(c, n) /\ StoredBytes(n, c) # <<>>

RemoveInProgress(i) == calls[i].op = "remove" /\ calls[i].pc # "done"
RecordLeaves(filename) == MapHas(metadata, filename) /\ ~MapHas(metadata', filename)

\* C29: while a remove of (category, name) is in progress, whether it goes on
\* or the process stops there, the index file is written and the record of
\* the name leaves the Map only once the file is gone, and the step that
\* unlinks the file takes the record out of the Map; so no state has an index
\* written by this remove next to the file it removes.
C29_RemoveOrder ==
  [][\A i \in DOMAIN calls :
       RemoveInProgress(i) =>
         LET e == Entry(calls[i].cat, calls[i].name)
         IN /\ (indexFile' # indexFile \/ RecordLeaves(calls[i].name))
                 => files'[e] = None
            /\ (files[e] # None /\ files'[e] = None)
                 => ~MapHas(metadata', calls[i].name)]_vars

\* the process stopped in a remove after the unlink and before the index was
\* opened: the new session has loaded a record whose file is gone
C29_Witness ==
  /\ last.op = "initialize"
  /\ \E i \in DOMAIN calls :
       /\ calls[i].op = "remove" /\ calls[i].status = "abandoned"
       /\ calls[i].at = "saveMetadata.open"
       /\ ~HasFile(calls[i].cat, calls[i].name)
       /\ MapHas(metadata, calls[i].name)
       /\ MapHas(IndexRecordsOnDisk, calls[i].name)

\* the process stops in call i, a store or an update, after the content file
\* was written and before the index file was
WriteStopped(i) ==
  /\ NewInstance
  /\ calls[i].op \in {"store", "update"}
  /\ calls[i].pc \in {"stat", "saveMetadata.open", "saveMetadata.write"}
ReadsNewContent(c) ==
  /\ retrieve(StAfter, c.name, c.cat, now).status = "ok"
  /\ retrieve(StAfter, c.name, c.cat, now).content = c.arg
\* a store of the entry in the new session leaves a record, in the Map and in
\* the index file, with the digest and the byte length of what it wrote
CorrectAtNextWrite(c) ==
  \A content \in CallContents :
    LET r == store(StAfter, c.name, content, c.cat, now)
        rec == [filePath |-> RelPath(c.cat, c.name),
                contentHash |-> [sha256 |-> Val(r.st.files[Entry(c.cat, c.name)])],
                lastUpdated |-> now,
                accessCount |-> 0,
                size |-> ByteLen(Val(r.st.files[Entry(c.cat, c.name)]))]
    IN /\ r.status = "ok"
       /\ Val(r.st.files[Entry(c.cat, c.name)]) = Utf8Encode(content)
       /\ MapGet(r.st.metadata, c.name) = rec
       /\ MapGet(loadMetadata(r.st).st.metadata, c.name) = rec
OthersKeepTheirRecords(c) ==
  \A n \in Names \ {c.name} :
    MapHas(metadata, n) =>
      MapHas(metadata', n) /\ MapGet(metadata', n) = MapGet(metadata, n)

\* C30, as stated: when the process stops after store or update wrote the
\* content file and before the index is persisted, the new session retrieves
\* the new content in full, the records of all other entries are as they
\* were, and the next store of the entry makes its record correct.
C30_OnlyTheEntry ==
  [][\A i \in DOMAIN calls :
       WriteStopped(i) =>
         /\ ReadsNewContent(calls[i])
         /\ OthersKeepTheirRecords(calls[i])
         /\ CorrectAtNextWrite(calls[i])]_vars

\* C30, amended: the new session retrieves the new content in full and no
\* content file has changed; the records of the other entries are as they
\* were unless the process stopped between the open and the write of the
\* index file, in which case the index does not parse and the new session
\* has no record at all; the next store of the entry makes its record correct.
C30_CrashInsideWrite ==
  [][\A i \in DOMAIN calls :
       WriteStopped(i) =>
         /\ ReadsNewContent(calls[i])
         /\ files' = files
         /\ IF calls[i].pc = "saveMetadata.write"
            THEN IndexUnusable /\ metadata' = <<>>
            ELSE OthersKeepTheirRecords(calls[i])
         /\ CorrectAtNextWrite(calls[i])]_vars

\* the process stopped in a store between the open and the write of the
\* index file: the content is on disk, the index does not parse, and the
\* record of another entry whose file exists is gone
C30_Witness ==
  /\ last.op = "initialize"
  /\ \E i \in DOMAIN calls :
       /\ calls[i].op \in {"store", "update"} /\ calls[i].status = "abandoned"
       /\ calls[i].at = "saveMetadata.write"
       /\ HasFile(calls[i].cat, calls[i].name)
       /\ Utf8Decode(StoredBytes(calls[i].name, calls[i].cat)) = Val(calls[i].arg)
       /\ IndexUnusable /\ metadata = <<>>
       /\ \E n \in Names \ {calls[i].name} : HasFile(calls[i].cat, n)

\* a string of characters that each take one byte in UTF-8
OneByte(content) ==
  content # <<>> /\ \A i \in DOMAIN content : ByteLen(Utf8Encode(<<content[i]>>)) = 1

\* C24: a store of a content of n one-byte characters (n = 10,000 in the
\* claim, the lengths of Contents here) returns metadata whose size is
\* strictly greater than n.
C24_LargeContentSize ==
  (last.op = "store" /\ Returned /\ OneByte(Val(last.arg))) =>
    Val(last.meta).size > Len(Val(last.arg))

\* C25: an update of an entry whose file exists leaves the files, the
\* directories, the Map and the index file as store with the same arguments
\* would have from the same state at the same time, and returns the same
\* metadata; an update of an entry whose file does not exist is rejected
\* and changes nothing: no file, no directory, no record.
C25_UpdateIsGuardedStore ==
  [][(nops' = nops + 1 /\ last'.op = "update") =>
       IF HasFile(last'.cat, last'.name)
       THEN /\ last'.status = "ok"
            /\ StAfter = store(St, last'.name, Val(last'.arg), last'.cat, now).st
            /\ last'.meta = store(St, last'.name, Val(last'.arg), last'.cat, now).meta
       ELSE /\ last'.status = "error"
            /\ StAfter = St]_vars

\* an update has replaced other content of an entry that had been read
C25_Witness ==
  /\ last.op = "update" /\ Returned
  /\ last.preFile # None /\ last.preFile # Some(Utf8Encode(Val(last.arg)))
  /\ last.preMeta # None /\ Val(last.preMeta).accessCount > 0
  /\ Val(last.meta).accessCount = 0

\* call i, a retrieve, reads a file that the Map has no record for
ReadsUntracked(i) ==
  /\ nops' = nops
  /\ calls[i].op = "retrieve" /\ calls[i].pc = "readFile" /\ calls'[i].pc = "done"
  /\ HasFile(calls[i].cat, calls[i].name)
  /\ ~MapHas(metadata, calls[i].name)

\* C26: a retrieve of a file that is on disk and has no record in the Map
\* returns the content of the file and a record made from it, with the
\* digest and the length of that content and accessCount 1; it leaves the
\* Map, the index file and the content files as they were, so the next
\* retrieve of the entry reports accessCount 1 again.
C26_FallbackMetadata ==
  [][\A i \in DOMAIN calls :
       ReadsUntracked(i) =>
         LET content == Utf8Decode(StoredBytes(calls[i].name, calls[i].cat))
         IN /\ calls'[i].status = "ok"
            /\ calls'[i].content = Some(content)
            /\ calls'[i].meta = Some([filePath |-> RelPath(calls[i].cat, calls[i].name),
                                      contentHash |-> Sha256Hex(content),
                                      lastUpdated |-> now,
                                      accessCount |-> 1,
                                      size |-> Len(content)])
            /\ metadata' = metadata /\ indexFile' = indexFile /\ files' = files
            /\ Val(retrieve(StAfter, calls[i].name, calls[i].cat, now).meta).accessCount
                 = 1]_vars

\* a retrieve has returned a made-up record for a file whose record was lost
\* with an index file that does not parse
C26_Witness ==
  /\ IndexUnusable /\ indexFile # None
  /\ \E i \in DOMAIN calls :
       /\ calls[i].op = "retrieve" /\ calls[i].status = "ok"
       /\ calls[i].content # Some(<<>>)
       /\ Val(calls[i].meta).accessCount = 1
       /\ HasFile(calls[i].cat, calls[i].name)
       /\ ~MapHas(metadata, calls[i].name)

ListedCategory == IF last.cat = "" THEN None ELSE Some(last.cat)
\* the names list(category) is to report: the regular files of the directory
\* that are not hidden and are keys of the Map
Listable(category) ==
  {n \in DirFiles(St, category) : n \notin HiddenNames /\ MapHas(metadata, n)}

\* C27: list(category) returns one record for each regular file of the
\* category directory whose name does not start with a dot and is a key of
\* the Map, the record the Map has under that name, and nothing else: as
\* many records as there are such files, so none twice and none for a file
\* with no record, a hidden file or a subdirectory.
C27_ListFiltering ==
  (last.op = "list") =>
    /\ Returned
    /\ Len(last.listing) = Cardinality(Listable(ListedCategory))
    /\ \A n \in Listable(ListedCategory) :
         \E i \in 1..Len(last.listing) : last.listing[i] = Rec(n)

\* list("personalities") has returned the record of x.md alone although the
\* directory also holds a hidden file that has a record and a subdirectory
C27_Witness ==
  /\ last.op = "list" /\ last.cat = "personalities"
  /\ HasFile("personalities", ".hidden.md") /\ MapHas(metadata, ".hidden.md")
  /\ "technical" \in SubDirs(St, Some("personalities"))
  /\ DirFiles(St, Some("personalities")) = {"x.md", ".hidden.md"}
  /\ last.listing = <<Rec("x.md")>>

\* C28: every record returned by list(category) has the path category/name
\* of a file in that category, and the digest and the byte length of that
\* file.
C28_ListedInCategory ==
  (last.op = "list" /\ last.cat # "") =>
    \A i \in 1..Len(last.listing) :
      /\ last.listing[i].filePath[1] = last.cat
      /\ RecordDescribesItsFile(last.listing[i])

PublicOperations ==
  {"initialize", "store", "retrieve", "update", "append", "remove", "list", "clear"}

\* C23: when a filesystem function fails during a call of a public
\* operation, for another reason than the file of the entry being missing,
\* the call is rejected with the error of that function.
C23_FailurePropagation ==
  (last.op \in PublicOperations /\ last.arg # None) =>
    /\ last.status = "error"
    /\ last.error = Val(last.arg).code

\* C36: a list or getStats call changes no file, no directory, no record of
\* the index (accessCount, lastUpdated, digest, size), neither the keys of
\* the index nor their order, and not the index file; so every call that
\* follows returns what it would have returned without it.
ReadOnlyCall == nops' = nops + 1 /\ last'.op \in {"list", "getStats"}
C36_ReadOnly ==
  [][ReadOnlyCall =>
       /\ files' = files /\ dirs' = dirs
       /\ metadata' = metadata
       /\ indexFile' = indexFile
       /\ \A n \in Names, c \in Cats :
            retrieve(StAfter, n, c, now') = retrieve(St, n, c, now)]_vars
\* list has returned the record of an entry that was read before, and the
\* record still has its count
C36_Witness ==
  /\ last.op = "list" /\ last.listing # <<>>
  /\ \E n \in Names :
       /\ MapHas(metadata, n) /\ Rec(n).accessCount > 0
       /\ Rec(n) = last.listing[1]

\* The content visible through retrieve, as a map from (category, name) to
\* content: the value under a key is what retrieve returns for it, none if
\* retrieve is rejected.
Visible(s, category, filename) ==
  LET r == retrieve(s, filename, category, 0)
  IN IF r.status = "ok" THEN r.content ELSE None
OwnKey(category, filename) == category = last'.cat /\ filename = last'.name
\* what a retrieve gives back of a content written: the text of its bytes
AsRead(content) == Utf8Decode(Utf8Encode(content))

\* C38: for calls that do not overlap, every call acts on the visible content
\* as the operation of a map keyed by (category, name): a store or update
\* that returns sets the value of its key to the content written, an append
\* to the old value, a newline and the fragment; a remove that returns
\* deletes its key; a clear deletes every key; and whatever the call and its
\* outcome, the value of every other key, the same name under another
\* category included, stays as it was, as does the value of the call's own
\* key when the call is rejected or is not a write.
C38_ContentIsAMap ==
  [][nops' = nops + 1 =>
       \A c \in Cats, n \in Names :
         LET before == Visible(St, c, n)
             wrote == OwnKey(c, n) /\ last'.status = "ok"
         IN Visible(StAfter, c, n) =
              IF last'.op = "clear" /\ last'.status = "ok" THEN None
              ELSE IF wrote /\ last'.op \in {"store", "update"}
                   THEN Some(AsRead(Val(last'.arg)))
              ELSE IF wrote /\ last'.op = "append"
                   THEN Some(AsRead(Val(before) \o <<"n">> \o Val(last'.arg)))
              ELSE IF wrote /\ last'.op = "remove" THEN None
              ELSE before]_vars
\* a remove has deleted an entry whose name still has a file, with a
\* content of its own, under the other category
C38_Witness ==
  /\ last.op = "remove" /\ Returned
  /\ Visible(St, last.cat, last.name) = None
  /\ \E c \in Cats \ {last.cat} :
       /\ Visible(St, c, last.name) # None
       /\ last.preFile # Some(Utf8Encode(Val(Visible(St, c, last.name))))

\* the step is a list of a category whose directory is missing or cannot be
\* read
ListedCat == IF last'.cat = "" THEN None ELSE Some(last'.cat)
ListUnreadable ==
  /\ nops' = nops + 1 /\ last'.op = "list"
  /\ \/ ~DirExists(St, ListedCat)
     \/ last'.arg # None /\ Val(last'.arg).fn = "readdir"

\* C37: list(category) for a category whose directory does not exist, or
\* whose directory readdir fails to read, returns the empty sequence with no
\* error, and leaves files, directories, index file and Map as they were.
C37_ListUnreadable ==
  [][ListUnreadable =>
       /\ last'.status = "ok" /\ last'.error = ""
       /\ last'.listing = <<>>
       /\ StAfter = St]_vars
\* a list whose readdir failed has returned, for a category with a tracked
\* file that a list would have returned
C37_Witness ==
  /\ last.op = "list" /\ last.status = "ok" /\ last.listing = <<>>
  /\ last.arg # None /\ Val(last.arg).fn = "readdir"
  /\ last.cat = DefaultCategory
  /\ <<>> \notin ListResults(St, Some(DefaultCategory))

\* the index file holds the text saveMetadata makes of the Map
SavedIndex == indexFile = Some(Stringify(metadata))

\* C31: a new instance that loads the index file saveMetadata wrote of the
\* Map has a Map with the same keys and, under every key, the same record
\* (path, digest, access count, size and lastUpdated instant), and list
\* gives for every category the results it gave before, in the same order.
C31_IndexRoundTrip ==
  [][(NewInstance /\ SavedIndex) =>
       /\ MapKeys(metadata') = MapKeys(metadata)
       /\ \A k \in MapKeys(metadata) : MapGet(metadata', k) = MapGet(metadata, k)
       /\ \A c \in Cats :
            ListResults(StAfter, Some(c)) = ListResults(St, Some(c))]_vars

\* a new instance has loaded two records of different instants whose files
\* are in one category
C31_Witness ==
  /\ last.op = "initialize" /\ Returned /\ nops > 0
  /\ SavedIndex
  /\ Len(metadata) = 2
  /\ metadata[1].value.lastUpdated # metadata[2].value.lastUpdated
  /\ \E c \in Cats : \A n \in Names : HasFile(c, n)

ReadsOf(filename) == {i \in DOMAIN calls : calls[i].name = filename}

\* C32: once all the retrieve calls issued on the instance have returned,
\* whichever of them overlapped, the record of each tracked entry in the Map
\* has an accessCount grown by the number of the calls for it (from the 0
\* the store left), and each of those calls has returned the stored content.
C32_ConcurrentReads ==
  (Quiescent /\ calls # <<>>) =>
    \A n \in Names :
      MapHas(metadata, n) =>
        /\ Rec(n).accessCount = Cardinality(ReadsOf(n))
        /\ \A i \in ReadsOf(n) :
             /\ calls[i].status = "ok"
             /\ calls[i].content = Some(ReadContent(n))

\* three retrieve calls for x.md, the later ones issued while an earlier one
\* was in progress, have all returned and the count is 3
C32_Witness ==
  /\ Quiescent
  /\ Cardinality(ReadsOf("x.md")) = MaxReads
  /\ \A i \in ReadsOf("x.md") : i > 1 => ~calls[i].alone
  /\ MapHas(metadata, "x.md")
  /\ Rec("x.md").accessCount = MaxReads

\* a call that has returned normally and had to persist the index: every
\* store, update, append and remove, and a retrieve or the retrieve of an
\* append that found a record
\* What the overlapping calls were given and what they left: the fragment or
\* content the k-th call brought, the content of the entry's file, and the
\* calls of a kind that have returned normally.
WriteEntry == <<DefaultCategory, WriteName>>
EntryContent == Utf8Decode(Val(files[WriteEntry]))
ReturnedOk(ops) ==
  {i \in DOMAIN calls : calls[i].op \in ops /\ calls[i].pc = "done" /\ calls[i].status = "ok"}
OnlyCalls(ops) ==
  /\ Quiescent /\ Len(calls) = 2
  /\ ReturnedOk(ops) = DOMAIN calls

\* C33: when two append calls for the same entry were issued on one instance
\* and both have returned, the file of the entry holds the original content
\* followed by both fragments, each once and each after a newline, in one of
\* the two orders.
C33_ConcurrentAppends ==
  OnlyCalls({"append"}) =>
    /\ files[WriteEntry] # None
    /\ EntryContent \in
         {OriginalContent \o <<"n">> \o WriteContent(1) \o <<"n">> \o WriteContent(2),
          OriginalContent \o <<"n">> \o WriteContent(2) \o <<"n">> \o WriteContent(1)}

\* C34: when two store or update calls for the same entry, with different
\* contents, were issued on one instance and both have returned, the record
\* of the entry in the index has the digest and the byte length of the
\* content the file holds, and that content, which a retrieve returns, is
\* one of the two contents written, whole.
C34_ConcurrentWrites ==
  OnlyCalls({"store", "update"}) =>
    /\ files[WriteEntry] # None
    /\ MapHas(metadata, WriteName)
    /\ MapGet(metadata, WriteName).contentHash = Sha256Hex(EntryContent)
    /\ MapGet(metadata, WriteName).size = ByteLen(Val(files[WriteEntry]))
    /\ EntryContent \in {WriteContent(1), WriteContent(2)}
    /\ retrieve(St, WriteName, DefaultCategory, now).content = Some(EntryContent)

\* C35: whenever no call is in progress, whichever calls overlapped before,
\* the file at the path of each record of the index exists; so a store or
\* update whose file an overlapping remove has unlinked leaves no record.
RecordHasFile(rec) == FileExists(St, rec.filePath[1], rec.filePath[2])
C35_NoOrphanRecord ==
  Quiescent => \A k \in DOMAIN metadata : RecordHasFile(metadata[k].value)

HadToPersist(c) ==
  c.status = "ok" /\ (c.op \in {"store", "update", "append", "remove"} \/ c.json # None)

\* C39: every call issued, alone or while others are in progress, returns or
\* is rejected in the end, given that each filesystem operation it awaits
\* returns: at all times there is a later time with no call in progress;
\* and a call that has returned normally and had to persist the index has
\* finished a write of the index file before.
C39_EveryCallCompletes ==
  /\ [](\A i \in DOMAIN calls : HadToPersist(calls[i]) => calls[i].saves >= 1)
  /\ []<>Quiescent

\* overlapping calls have all returned: one normally after its index write,
\* one rejected
C39_Witness ==
  /\ Quiescent /\ Len(calls) = MaxWriters
  /\ \E i, j \in DOMAIN calls :
       /\ ~calls[i].alone /\ calls[i].status = "ok" /\ calls[i].saves >= 1
       /\ calls[j].status = "error"
====
